---- MODULE Spec2Model ----
(***************************************************************************)
(* A model of the SPIR-V module writer (back/spv/writer.rs).               *)
(*                                                                         *)
(* The writer is a record `w` carrying the fields of the Rust struct.      *)
(* Every method of the writer is an operator from a writer record (and the *)
(* method's arguments) to the writer record after the call; methods that   *)
(* return a value return a record [w |-> ..., id |-> ...].  An error       *)
(* (`Err(..)` propagated by `?`) or an abort (`unreachable!`) is recorded  *)
(* in the field `err`; the code after a failed call is not executed.       *)
(*                                                                         *)
(* An emitted instruction is an opaque record: its opcode, its result id   *)
(* (0 when it has none), its result type id, the ids it refers to, an      *)
(* enumerant (storage class, capability, decoration, ...), its literal     *)
(* operands and a string operand.  A layout section is the sequence of the *)
(* instructions appended to it.                                            *)
(***************************************************************************)
EXTENDS Integers, Sequences, FiniteSets, TLC

VARIABLES
    w,          \* the Writer, or NoWriter before Writer::new succeeded
    opts,       \* the Options handed to Writer::new
    pc,         \* position of the caller / of write() in its passes
    idx,        \* index of the next arena element of the running pass
    mod,        \* index in Modules of the IR module being written
    po,         \* the PipelineOptions of the running write(), or NoPipeline
    ep_index,   \* the entry point index resolved by write(), or NoIndex
    words,      \* the caller's output vector
    words0,     \* the caller's vector as it was when write() was called
    ret,        \* what the last finished call returned
    last,       \* module, pipeline options and layouts of an earlier Ok write
    writes,     \* number of write() calls started
    calls       \* the get_pointer_id calls made on the writer from outside
                \* write(), each with what it returned and did

vars ==
    <<w, opts, pc, idx, mod, po, ep_index, words, words0, ret, last, writes, calls>>

\* The model stops starting new write() calls after this many.
MaxWrites == 2

----------------------------------------------------------------------------
(* Instructions and the id generator                                        *)

Instruction(op, id, ty, refs, tag, lits, name) ==
    [op |-> op, id |-> id, ty |-> ty, refs |-> refs, tag |-> tag,
     lits |-> lits, name |-> name]

\* IdGenerator::next: the counter is incremented and its new value returned,
\* so 0 is never an id (0 marks "no id" in constant_ids and handle_id).
id_gen_next(wr) ==
    [w |-> [wr EXCEPT !.id_gen = @ + 1], id |-> wr.id_gen + 1]

\* The Result of the running call: Ok, an Error value, or an abort.
NoError == [kind |-> "Ok", what |-> "", caps |-> <<>>]

Error(kind, what, caps) == [kind |-> kind, what |-> what, caps |-> caps]

Failed(wr) == wr.err.kind # "Ok"

Fail(wr, e) == IF Failed(wr) THEN wr ELSE [wr EXCEPT !.err = e]

\* unreachable!(..): the process aborts
Abort(wr, message) == Fail(wr, Error("abort", message, <<>>))

EmptyMap == [x \in {} |-> 0]

Insert(map, key, val) == (key :> val) @@ map

EmptyLogicalLayout ==
    [capabilities |-> <<>>, extensions |-> <<>>, ext_inst_imports |-> <<>>,
     memory_model |-> <<>>, entry_points |-> <<>>, execution_modes |-> <<>>,
     debugs |-> <<>>, annotations |-> <<>>, declarations |-> <<>>,
     function_definitions |-> <<>>]

\* PhysicalLayout::new(version) and its recycle(): the version is kept, the
\* bound starts at 0.
PhysicalLayout_new(raw_version) == [version |-> raw_version, bound |-> 0]

----------------------------------------------------------------------------
(* Writer::new and Writer::reset                                            *)

NoWriter == [err |-> Error("NoWriter", "", <<>>)]

\* A variant of the raw version with the two shifts exchanged:
\* C18_WriterNew rejects it.
RawVersion_swapped(major, minor) == major * 256 + minor * 65536

RawVersion(major, minor) == major * 65536 + minor * 256

Writer_new(options) ==
    LET g1 == id_gen_next([id_gen |-> 0])
        g2 == id_gen_next(g1.w)
    IN  [physical_layout |-> PhysicalLayout_new(
                RawVersion(options.lang_version[1], options.lang_version[2])),
         logical_layout |-> EmptyLogicalLayout,
         id_gen |-> g2.w.id_gen,
         capabilities_available |-> options.capabilities,
         capabilities_used |-> {"Shader"},
         debugs |-> <<>>,
         annotations |-> <<>>,
         flags |-> options.flags,
         bounds_check_policies |-> options.bounds_check_policies,
         void_type |-> g2.id,
         lookup_type |-> EmptyMap,
         lookup_function |-> EmptyMap,
         lookup_function_type |-> EmptyMap,
         constant_ids |-> <<>>,
         cached_constants |-> EmptyMap,
         global_variables |-> <<>>,
         gl450_ext_inst_id |-> g1.id,
         err |-> NoError]

\* A variant of reset that recycles everything but capabilities_used:
\* C2_ResetIsNew rejects it.
reset_leaking_capabilities(wr) ==
    [wr EXCEPT !.physical_layout = PhysicalLayout_new(@.version),
               !.logical_layout = EmptyLogicalLayout,
               !.id_gen = 2,
               !.debugs = <<>>,
               !.annotations = <<>>,
               !.lookup_type = EmptyMap,
               !.lookup_function = EmptyMap,
               !.lookup_function_type = EmptyMap,
               !.constant_ids = <<>>,
               !.cached_constants = EmptyMap,
               !.global_variables = <<>>,
               !.err = NoError]

reset(wr) ==
    LET g1 == id_gen_next([id_gen |-> 0])
        g2 == id_gen_next(g1.w)
    IN  [physical_layout |-> PhysicalLayout_new(wr.physical_layout.version),
         logical_layout |-> EmptyLogicalLayout,
         id_gen |-> g2.w.id_gen,
         capabilities_available |-> wr.capabilities_available,
         capabilities_used |-> {} \cup {"Shader"},
         debugs |-> <<>>,
         annotations |-> <<>>,
         flags |-> wr.flags,
         bounds_check_policies |-> wr.bounds_check_policies,
         void_type |-> g2.id,
         lookup_type |-> EmptyMap,
         lookup_function |-> EmptyMap,
         lookup_function_type |-> EmptyMap,
         constant_ids |-> <<>>,
         cached_constants |-> EmptyMap,
         global_variables |-> <<>>,
         gl450_ext_inst_id |-> g1.id,
         err |-> NoError]

----------------------------------------------------------------------------
(* Capabilities                                                             *)

\* capabilities_available: None, or Some(set)
NoneCaps == [some |-> FALSE, set |-> {}]

SomeCaps(S) == [some |-> TRUE, set |-> S]

\* A variant of the search of require_any that takes the last listed
\* capability that is available: C13_RequireAny rejects it.
FirstAvailable_last(capabilities, available) ==
    IF \A i \in 1..Len(capabilities) : capabilities[i] \notin available THEN ""
    ELSE capabilities[CHOOSE i \in 1..Len(capabilities) :
                         /\ capabilities[i] \in available
                         /\ \A j \in (i + 1)..Len(capabilities) :
                               capabilities[j] \notin available]

RECURSIVE FirstAvailable(_, _)
FirstAvailable(capabilities, available) ==
    IF capabilities = <<>> THEN ""
    ELSE IF Head(capabilities) \in available THEN Head(capabilities)
    ELSE FirstAvailable(Tail(capabilities), available)

require_any(wr, what, capabilities) ==
    IF Failed(wr) \/ capabilities = <<>> THEN wr
    ELSE LET selected ==
                 IF ~wr.capabilities_available.some THEN Head(capabilities)
                 ELSE FirstAvailable(capabilities, wr.capabilities_available.set)
         IN  IF selected = ""
             THEN Fail(wr, Error("MissingCapabilities", what, capabilities))
             ELSE [wr EXCEPT !.capabilities_used = @ \cup {selected}]

----------------------------------------------------------------------------
(* The type model: LookupType and LocalType                                 *)

BITS_PER_BYTE == 8

Handle(h) == [k |-> "Handle", handle |-> h]

Local(l) == [k |-> "Local", local |-> l]

\* LocalType::Value; vector_size 0 is None, pointer_class "" is None
Value(vector_size, kind, width, pointer_class) ==
    [lt |-> "Value", vector_size |-> vector_size, kind |-> kind,
     width |-> width, pointer_class |-> pointer_class]

Matrix(columns, rows, width) ==
    [lt |-> "Matrix", columns |-> columns, rows |-> rows, width |-> width]

Pointer(base, class) == [lt |-> "Pointer", base |-> base, class |-> class]

Image(image) == [lt |-> "Image", image |-> image]

Sampler == [lt |-> "Sampler"]

SampledImage(image_type_id) ==
    [lt |-> "SampledImage", image_type_id |-> image_type_id]

map_storage_class(class) ==
    CASE class = "Function" -> "Function"
      [] class = "Private" -> "Private"
      [] class = "Storage" -> "StorageBuffer"
      [] class = "Uniform" -> "Uniform"
      [] class = "WorkGroup" -> "Workgroup"
      [] class = "Handle" -> "UniformConstant"
      [] class = "PushConstant" -> "PushConstant"

\* The scalar kind sampled from a storage image of the given format
FormatKind(format) ==
    CASE format \in {"R32ui", "Rg32ui", "R64ui"} -> "Uint"
      [] format \in {"R32i", "R64i"} -> "Sint"
      [] OTHER -> "Float"

\* LocalImageType::from_inner
LocalImageType(dim, arrayed, class) ==
    [sampled_type |-> CASE class.ic = "Sampled" -> class.kind
                        [] class.ic = "Depth" -> "Float"
                        [] class.ic = "Storage" -> FormatKind(class.format),
     dim |-> dim,
     arrayed |-> arrayed,
     depth |-> class.ic = "Depth",
     multi |-> class.ic # "Storage" /\ class.multi,
     sampled |-> class.ic # "Storage",
     image_format |-> IF class.ic = "Storage" THEN class.format ELSE "Unknown"]

NoLocal == [lt |-> "None"]

\* make_local: the LocalType projection of a TypeInner, NoLocal when it has none
make_local(inner) ==
    CASE inner.ti = "Scalar" -> Value(0, inner.kind, inner.width, "")
      [] inner.ti = "Vector" -> Value(inner.size, inner.kind, inner.width, "")
      [] inner.ti = "Matrix" -> Matrix(inner.columns, inner.rows, inner.width)
      [] inner.ti = "Pointer" -> Pointer(inner.base, map_storage_class(inner.class))
      [] inner.ti = "Image" ->
            Image(LocalImageType(inner.dim, inner.arrayed, inner.class))
      [] inner.ti = "Sampler" -> Sampler
      [] OTHER -> NoLocal

\* TypeInner::is_handle
is_handle(inner) == inner.ti \in {"Image", "Sampler"}

Emit(wr, section, ins) ==
    [wr EXCEPT !.logical_layout[section] = Append(@, ins)]

make_scalar(wr, id, kind, width) ==
    LET bits == width * BITS_PER_BYTE
    IN  CASE kind \in {"Sint", "Uint"} ->
               LET signedness == IF kind = "Sint" THEN "Signed" ELSE "Unsigned"
                   cap == CASE bits = 8 -> "Int8"
                            [] bits = 16 -> "Int16"
                            [] bits = 64 -> "Int64"
                            [] OTHER -> ""
               IN  [w |-> IF cap # ""
                          THEN [wr EXCEPT !.capabilities_used = @ \cup {cap}]
                          ELSE wr,
                    ins |-> Instruction("OpTypeInt", id, 0, <<>>, signedness,
                                        <<bits>>, "")]
          [] kind = "Float" ->
               [w |-> IF bits = 64
                      THEN [wr EXCEPT !.capabilities_used = @ \cup {"Float64"}]
                      ELSE wr,
                ins |-> Instruction("OpTypeFloat", id, 0, <<>>, "", <<bits>>, "")]
          [] kind = "Bool" ->
               [w |-> wr,
                ins |-> Instruction("OpTypeBool", id, 0, <<>>, "", <<>>, "")]

\* `let x = value; rest(x)`: the value is computed once and named
Bind(value, Rest(_)) == Rest(value)

RECURSIVE get_type_id(_, _)
RECURSIVE write_type_declaration_local(_, _, _)

\* A variant of get_type_id that declares a LocalType again on every call:
\* C6_Interned rejects it.
get_type_id_uncached(wr, lookup_ty) ==
    IF Failed(wr) THEN [w |-> wr, id |-> 0]
    ELSE IF lookup_ty.k = "Handle"
    THEN IF lookup_ty \in DOMAIN wr.lookup_type
         THEN [w |-> wr, id |-> wr.lookup_type[lookup_ty]]
         ELSE [w |-> Abort(wr, "Handles are populated at start"), id |-> 0]
    ELSE Bind(id_gen_next(wr), LAMBDA g :
           [w |-> write_type_declaration_local(
                     [g.w EXCEPT !.lookup_type = Insert(@, lookup_ty, g.id)],
                     g.id, lookup_ty.local),
            id |-> g.id])

get_type_id(wr, lookup_ty) ==
    IF Failed(wr) THEN [w |-> wr, id |-> 0]
    ELSE IF lookup_ty \in DOMAIN wr.lookup_type
    THEN [w |-> wr, id |-> wr.lookup_type[lookup_ty]]
    ELSE IF lookup_ty.k = "Handle"
    THEN [w |-> Abort(wr, "Handles are populated at start"), id |-> 0]
    ELSE Bind(id_gen_next(wr), LAMBDA g :
           [w |-> write_type_declaration_local(
                     [g.w EXCEPT !.lookup_type = Insert(@, lookup_ty, g.id)],
                     g.id, lookup_ty.local),
            id |-> g.id])

\* the instruction declaring a type that refers to one other type
TypeOver(t, op, id, tag, lits, name) ==
    [w |-> t.w, ins |-> Instruction(op, id, 0, <<t.id>>, tag, lits, name)]

write_type_declaration_local(wr, id, local_ty) ==
    Bind(CASE local_ty.lt = "Value" /\ local_ty.vector_size = 0
              /\ local_ty.pointer_class = "" ->
                make_scalar(wr, id, local_ty.kind, local_ty.width)
           [] local_ty.lt = "Value" /\ local_ty.vector_size # 0
              /\ local_ty.pointer_class = "" ->
                TypeOver(get_type_id(wr, Local(Value(0, local_ty.kind,
                                                     local_ty.width, ""))),
                         "OpTypeVector", id, "", <<local_ty.vector_size>>, "")
           [] local_ty.lt = "Matrix" ->
                TypeOver(get_type_id(wr, Local(Value(local_ty.rows, "Float",
                                                     local_ty.width, ""))),
                         "OpTypeMatrix", id, "", <<local_ty.columns>>, "")
           [] local_ty.lt = "Pointer" ->
                TypeOver(get_type_id(wr, Handle(local_ty.base)),
                         "OpTypePointer", id, local_ty.class, <<>>, "")
           [] local_ty.lt = "Value" /\ local_ty.pointer_class # "" ->
                TypeOver(get_type_id(wr, Local(Value(local_ty.vector_size,
                                                     local_ty.kind,
                                                     local_ty.width, ""))),
                         "OpTypePointer", id, local_ty.pointer_class, <<>>, "")
           [] local_ty.lt = "Image" ->
                TypeOver(get_type_id(wr, Local(Value(0, local_ty.image.sampled_type,
                                                     4, ""))),
                         "OpTypeImage", id, local_ty.image.dim, <<>>,
                         local_ty.image.image_format)
           [] local_ty.lt = "Sampler" ->
                [w |-> wr,
                 ins |-> Instruction("OpTypeSampler", id, 0, <<>>, "", <<>>, "")]
           [] local_ty.lt = "SampledImage" ->
                [w |-> wr,
                 ins |-> Instruction("OpTypeSampledImage", id, 0,
                                     <<local_ty.image_type_id>>, "", <<>>, "")],
         LAMBDA r : IF Failed(r.w) THEN r.w ELSE Emit(r.w, "declarations", r.ins))

get_expression_type_id(wr, tr) ==
    IF tr.tr = "Handle" THEN get_type_id(wr, Handle(tr.handle))
    ELSE get_type_id(wr, Local(make_local(tr.inner)))

\* A variant of the declaration of a pointer type that does not enter the
\* key in lookup_type: C25_PointerInterned rejects it.
DeclarePointer_not_interned(t, key, class) ==
    Bind(id_gen_next(t.w), LAMBDA g :
      [w |-> Emit(g.w, "declarations",
                  Instruction("OpTypePointer", g.id, 0, <<t.id>>, class, <<>>, "")),
       id |-> g.id])

\* declare a pointer type with a fresh id and intern it under the key
DeclarePointer(t, key, class) ==
    Bind(id_gen_next(t.w), LAMBDA g :
      [w |-> [Emit(g.w, "declarations",
                   Instruction("OpTypePointer", g.id, 0, <<t.id>>, class, <<>>, ""))
                EXCEPT !.lookup_type = Insert(@, key, g.id)],
       id |-> g.id])

get_pointer_id(wr, arena, handle, class) ==
    Bind(get_type_id(wr, Handle(handle)), LAMBDA t :
      IF Failed(t.w) THEN [w |-> t.w, id |-> 0]
      ELSE IF arena[handle].inner.ti = "Pointer" THEN t
      ELSE IF Local(Pointer(handle, class)) \in DOMAIN t.w.lookup_type
      THEN [w |-> t.w, id |-> t.w.lookup_type[Local(Pointer(handle, class))]]
      ELSE DeclarePointer(t, Local(Pointer(handle, class)), class))

get_uint_type_id(wr) == get_type_id(wr, Local(Value(0, "Uint", 4, "")))

get_float_type_id(wr) == get_type_id(wr, Local(Value(0, "Float", 4, "")))

get_float_pointer_type_id(wr, class) ==
    IF Local(Value(0, "Float", 4, class)) \in DOMAIN wr.lookup_type
    THEN [w |-> wr, id |-> wr.lookup_type[Local(Value(0, "Float", 4, class))]]
    ELSE Bind(id_gen_next(wr), LAMBDA g :
         Bind(get_float_type_id(g.w), LAMBDA t :
           [w |-> [Emit(t.w, "declarations",
                        Instruction("OpTypePointer", g.id, 0, <<t.id>>, class,
                                    <<>>, ""))
                     EXCEPT !.lookup_type =
                        Insert(@, Local(Value(0, "Float", 4, class)), g.id)],
            id |-> g.id]))

get_bool_type_id(wr) == get_type_id(wr, Local(Value(0, "Bool", 1, "")))

decorate(wr, id, decoration, operands) ==
    [wr EXCEPT !.annotations =
        Append(@, Instruction("OpDecorate", 0, 0, <<id>>, decoration, operands, ""))]

PushDebug(wr, ins) == [wr EXCEPT !.debugs = Append(@, ins)]

\* the `if DEBUG { if let Some(name) = .. { debugs.push(name(id, name)) } }` idiom
DebugName(wr, id, name) ==
    IF "DEBUG" \in wr.flags /\ name # ""
    THEN PushDebug(wr, Instruction("OpName", 0, 0, <<id>>, "", <<>>, name))
    ELSE wr

----------------------------------------------------------------------------
(* Image capabilities                                                       *)

ExtendedFormats ==
    {"Rg32f", "Rg16f", "R11fG11fB10f", "R16f", "Rgba16", "Rgb10A2", "Rg16",
     "Rg8", "R16", "R8", "Rgba16Snorm", "Rg16Snorm", "Rg8Snorm", "R16Snorm",
     "R8Snorm", "Rg32i", "Rg16i", "Rg8i", "R16i", "R8i", "Rgb10a2ui", "Rg32ui",
     "Rg16ui", "Rg8ui", "R16ui", "R8ui"}

request_image_format_capabilities(wr, format) ==
    CASE format \in ExtendedFormats ->
            require_any(wr, "storage image format",
                        <<"StorageImageExtendedFormats">>)
      [] format \in {"R64ui", "R64i"} ->
            require_any(wr, "64-bit integer storage image format",
                        <<"Int64ImageEXT">>)
      [] OTHER -> wr

\* the capability the dimension of an image asks for
ImageDimCapabilities(wr, inner, sampled) ==
    IF Failed(wr) THEN wr
    ELSE CASE inner.dim = "D1" ->
                IF sampled
                THEN require_any(wr, "sampled 1D images", <<"Sampled1D">>)
                ELSE require_any(wr, "1D storage images", <<"Image1D">>)
           [] inner.dim = "Cube" /\ inner.arrayed ->
                IF sampled
                THEN require_any(wr, "sampled cube array images",
                                 <<"SampledCubeArray">>)
                ELSE require_any(wr, "cube array storage images",
                                 <<"ImageCubeArray">>)
           [] OTHER -> wr

request_image_capabilities(wr, inner) ==
    IF inner.ti # "Image" THEN wr
    ELSE ImageDimCapabilities(
            IF inner.class.ic = "Storage"
            THEN request_image_format_capabilities(wr, inner.class.format)
            ELSE wr,
            inner, inner.class.ic \in {"Sampled", "Depth"})

----------------------------------------------------------------------------
(* Arena type emission                                                      *)

\* the ColMajor and MatrixStride decorations of a member that is a matrix or
\* an array of matrices
MatrixLayout(wr, arena, id, index, member) ==
    Bind(IF arena[member.ty].inner.ti = "Array"
         THEN arena[arena[member.ty].inner.base].inner
         ELSE arena[member.ty].inner,
         LAMBDA member_array_subty_inner :
      IF member_array_subty_inner.ti # "Matrix" THEN wr
      ELSE [wr EXCEPT !.annotations = @ \o
              << Instruction("OpMemberDecorate", 0, 0, <<id>>, "ColMajor",
                             <<index>>, ""),
                 Instruction("OpMemberDecorate", 0, 0, <<id>>, "MatrixStride",
                             << index,
                                IF member_array_subty_inner.columns = 2
                                THEN 2 * member_array_subty_inner.width
                                ELSE 4 * member_array_subty_inner.width >>,
                             "") >>])

\* the Offset decoration and the debug name of a struct member
MemberLayout(wr, id, index, member) ==
    Bind([wr EXCEPT !.annotations =
            Append(@, Instruction("OpMemberDecorate", 0, 0, <<id>>, "Offset",
                                  <<index, member.offset>>, ""))],
         LAMBDA w1 :
      IF "DEBUG" \in w1.flags /\ member.name # ""
      THEN PushDebug(w1, Instruction("OpMemberName", 0, 0, <<id>>, "", <<index>>,
                                     member.name))
      ELSE w1)

\* one iteration of the member loop of a struct
StructMember(acc, arena, id, index, member) ==
    Bind(get_type_id(MatrixLayout(MemberLayout(acc.w, id, index, member),
                                  arena, id, index, member),
                     Handle(member.ty)),
         LAMBDA t : [w |-> t.w, ids |-> Append(acc.ids, t.id)])

RECURSIVE StructMembers(_, _, _, _, _)
StructMembers(acc, arena, id, members, index) ==
    IF index >= Len(members) \/ Failed(acc.w) THEN acc
    ELSE StructMembers(StructMember(acc, arena, id, index, members[index + 1]),
                       arena, id, members, index + 1)

\* the declaration of an array type
ArrayType(g, inner) ==
    Bind(get_type_id(decorate(g.w, g.id, "ArrayStride", <<inner.stride>>),
                     Handle(inner.base)),
         LAMBDA t :
      [w |-> IF Failed(t.w) THEN t.w
             ELSE Emit(t.w, "declarations",
                       IF inner.size.as = "Constant"
                       THEN Instruction("OpTypeArray", g.id, 0,
                                        <<t.id, t.w.constant_ids[inner.size.c]>>,
                                        "", <<>>, "")
                       ELSE Instruction("OpTypeRuntimeArray", g.id, 0, <<t.id>>,
                                        "", <<>>, "")),
       id |-> g.id])

\* the declaration of a struct type
StructType(g, arena, inner) ==
    Bind(StructMembers([w |-> IF inner.top_level
                              THEN decorate(g.w, g.id, "Block", <<>>)
                              ELSE g.w,
                        ids |-> <<>>],
                       arena, g.id, inner.members, 0),
         LAMBDA ms :
      [w |-> IF Failed(ms.w) THEN ms.w
             ELSE Emit(ms.w, "declarations",
                       Instruction("OpTypeStruct", g.id, 0, ms.ids, "", <<>>, "")),
       id |-> g.id])

\* a type with a LocalType projection: its interned id, or a fresh
\* declaration and the capabilities of an image
LocalArenaType(wr, inner, local) ==
    IF Local(local) \in DOMAIN wr.lookup_type
    THEN [w |-> wr, id |-> wr.lookup_type[Local(local)]]
    ELSE Bind(id_gen_next(wr), LAMBDA g :
         Bind(write_type_declaration_local(
                 [g.w EXCEPT !.lookup_type = Insert(@, Local(local), g.id)],
                 g.id, local),
              LAMBDA w2 :
           [w |-> IF Failed(w2) THEN w2 ELSE request_image_capabilities(w2, inner),
            id |-> g.id]))

\* A variant of the end of write_type_declaration_arena that does not record
\* the handle: C8_HandlesPopulated rejects it.
PublishHandle_forgotten(r, handle, name) ==
    IF Failed(r.w) THEN r
    ELSE [w |-> DebugName(r.w, r.id, name), id |-> r.id]

\* "Add this handle as a new alias for that type", and its debug name
PublishHandle(r, handle, name) ==
    IF Failed(r.w) THEN r
    ELSE [w |-> DebugName([r.w EXCEPT !.lookup_type =
                              Insert(@, Handle(handle), r.id)],
                          r.id, name),
          id |-> r.id]

write_type_declaration_arena(wr, arena, handle) ==
    PublishHandle(
        IF make_local(arena[handle].inner) # NoLocal
        THEN LocalArenaType(wr, arena[handle].inner, make_local(arena[handle].inner))
        ELSE IF arena[handle].inner.ti = "Array"
        THEN ArrayType(id_gen_next(wr), arena[handle].inner)
        ELSE StructType(id_gen_next(wr), arena, arena[handle].inner),
        handle, arena[handle].name)

----------------------------------------------------------------------------
(* Constants                                                                *)

\* The words of a scalar literal: one word for width 4; the high word, then
\* the low word for width 8.  A word is kept as the signed value it denotes
\* (every literal of the model fits in 31 bits, so the high word of a
\* width-8 literal is its sign extension).
ConstantWords(value, width) ==
    IF width = 4 THEN << value.v >>
    ELSE << IF value.v < 0 THEN -1 ELSE 0, value.v >>

\* A variant of write_constant_scalar that emits the constant before it asks
\* for the type: C28_DeclaredBeforeUse rejects it.
write_constant_scalar_type_last(wr, id, value, width, debug_name) ==
    get_type_id(
       Emit(DebugName(wr, id, debug_name), "declarations",
            Instruction("OpConstant", id,
                        IF Local(Value(0, value.kind, width, ""))
                              \in DOMAIN wr.lookup_type
                        THEN wr.lookup_type[Local(Value(0, value.kind, width, ""))]
                        ELSE wr.id_gen + 1,
                        <<>>, "", ConstantWords(value, width), "")),
       Local(Value(0, value.kind, width, ""))).w

write_constant_scalar(wr, id, value, width, debug_name) ==
    Bind(get_type_id(DebugName(wr, id, debug_name),
                     Local(Value(0, value.kind, width, ""))),
         LAMBDA t :
      IF value.kind = "Bool"
      THEN Emit(t.w, "declarations",
                Instruction(IF value.v = 1 THEN "OpConstantTrue"
                            ELSE "OpConstantFalse",
                            id, t.id, <<>>, "", <<>>, ""))
      ELSE IF width \in {4, 8}
      THEN Emit(t.w, "declarations",
                Instruction("OpConstant", id, t.id, <<>>, "",
                            ConstantWords(value, width), ""))
      ELSE Abort(t.w, "unreachable"))

get_constant_scalar(wr, value, width) ==
    IF <<value, width>> \in DOMAIN wr.cached_constants
    THEN [w |-> wr, id |-> wr.cached_constants[<<value, width>>]]
    ELSE Bind(id_gen_next(wr), LAMBDA g :
         Bind(write_constant_scalar(g.w, g.id, value, width, ""), LAMBDA w1 :
           [w |-> IF Failed(w1) THEN w1
                  ELSE [w1 EXCEPT !.cached_constants =
                                     Insert(@, <<value, width>>, g.id)],
            id |-> g.id]))

get_index_constant(wr, index) ==
    get_constant_scalar(wr, [kind |-> "Uint", v |-> index], 4)

write_constant_composite(wr, id, ty, components) ==
    Bind(get_type_id(wr, Handle(ty)), LAMBDA t :
      IF Failed(t.w) THEN t.w
      ELSE Emit(t.w, "declarations",
                Instruction("OpConstantComposite", id, t.id,
                            [i \in 1..Len(components) |->
                                wr.constant_ids[components[i]]],
                            "", <<>>, "")))

write_constant_null(wr, type_id) ==
    Bind(id_gen_next(wr), LAMBDA g :
      [w |-> Emit(g.w, "declarations",
                  Instruction("OpConstantNull", g.id, type_id, <<>>, "", <<>>, "")),
       id |-> g.id])

----------------------------------------------------------------------------
(* Varyings and global variables                                            *)

NoBinding == [b |-> "None"]

Location(location, interpolation, sampling) ==
    [b |-> "Location", location |-> location, interpolation |-> interpolation,
     sampling |-> sampling]

BuiltIn(built_in) == [b |-> "BuiltIn", built_in |-> built_in]

\* the SPIR-V built-in a crate::BuiltIn maps to, for the storage class
MapBuiltIn(built_in, class) ==
    CASE built_in = "Position" ->
            IF class = "Output" THEN "Position" ELSE "FragCoord"
      [] built_in = "PrimitiveIndex" -> "PrimitiveId"
      [] built_in = "SampleIndex" -> "SampleId"
      [] built_in = "WorkGroupId" -> "WorkgroupId"
      [] built_in = "WorkGroupSize" -> "WorkgroupSize"
      [] built_in = "NumWorkGroups" -> "NumWorkgroups"
      [] OTHER -> built_in

\* the debug name of a varying
VaryingName(wr, id, debug_name) ==
    IF {"DEBUG", "LABEL_VARYINGS"} \subseteq wr.flags /\ debug_name # ""
    THEN PushDebug(wr, Instruction("OpName", 0, 0, <<id>>, "", <<>>, debug_name))
    ELSE wr

\* the decoration of the interpolation of a location binding
InterpolationDecoration(wr, id, interpolation) ==
    CASE interpolation = "Flat" -> decorate(wr, id, "Flat", <<>>)
      [] interpolation = "Linear" -> decorate(wr, id, "NoPerspective", <<>>)
      [] OTHER -> wr

\* the decoration of the sampling of a location binding
SamplingDecoration(wr, id, sampling) ==
    CASE sampling = "Centroid" -> decorate(wr, id, "Centroid", <<>>)
      [] sampling = "Sample" ->
            Bind(require_any(wr, "per-sample interpolation",
                             <<"SampleRateShading">>),
                 LAMBDA c : IF Failed(c) THEN c ELSE decorate(c, id, "Sample", <<>>))
      [] OTHER -> wr

\* the capability a built-in asks for, then its decoration
BuiltInDecoration(wr, id, class, built_in) ==
    Bind(CASE built_in = "ViewIndex" ->
                require_any(wr, "view_index built-in", <<"MultiView">>)
           [] built_in = "PrimitiveIndex" ->
                require_any(wr, "primitive_index built-in", <<"Geometry">>)
           [] built_in = "SampleIndex" ->
                require_any(wr, "sample_index built-in", <<"SampleRateShading">>)
           [] OTHER -> wr,
         LAMBDA a :
      IF Failed(a) THEN a
      ELSE [a EXCEPT !.annotations = Append(@,
              Instruction("OpDecorate", 0, 0, <<id>>, "BuiltIn", <<>>,
                          MapBuiltIn(built_in, class)))])

\* the `match *binding` of write_varying
BindingDecorations(wr, id, class, binding) ==
    IF binding.b = "Location"
    THEN SamplingDecoration(
            InterpolationDecoration(
                decorate(wr, id, "Location", <<binding.location>>),
                id, binding.interpolation),
            id, binding.sampling)
    ELSE BuiltInDecoration(wr, id, class, binding.built_in)

write_varying(wr, ir_module, class, debug_name, ty, binding) ==
    Bind(id_gen_next(wr), LAMBDA g :
    Bind(get_pointer_id(g.w, ir_module.types, ty, class), LAMBDA p :
      IF Failed(p.w) THEN [w |-> p.w, id |-> 0]
      ELSE [w |-> BindingDecorations(
                     VaryingName(
                        Emit(p.w, "declarations",
                             Instruction("OpVariable", g.id, p.id, <<>>, class,
                                         <<>>, "")),
                        g.id, debug_name),
                     g.id, class, binding),
            id |-> g.id]))

\* GlobalVariable::new, GlobalVariable::dummy and reset_for_function
GlobalVariable_new(id) == [id |-> id, handle_id |-> 0]

GlobalVariable_dummy == [id |-> 0, handle_id |-> 0]

reset_for_function(gv) == [gv EXCEPT !.handle_id = 0]

\* the storage access a global's decorations are derived from: of a Storage
\* class global, else of a storage image; "none" otherwise
StorageAccessOf(ir_module, global_variable) ==
    IF global_variable.class = "Storage" THEN global_variable.access
    ELSE IF ir_module.types[global_variable.ty].inner.ti = "Image"
            /\ ir_module.types[global_variable.ty].inner.class.ic = "Storage"
    THEN ir_module.types[global_variable.ty].inner.class.access
    ELSE {"none"}

\* the NonReadable and NonWritable decorations of a global
AccessDecorations(wr, id, storage_access) ==
    IF storage_access = {"none"} THEN wr
    ELSE [wr EXCEPT !.annotations = @ \o
            (IF "LOAD" \notin storage_access
             THEN <<Instruction("OpDecorate", 0, 0, <<id>>, "NonReadable", <<>>, "")>>
             ELSE <<>>)
            \o
            (IF "STORE" \notin storage_access
             THEN <<Instruction("OpDecorate", 0, 0, <<id>>, "NonWritable", <<>>, "")>>
             ELSE <<>>)]

\* the DescriptorSet and Binding decorations of a global
ResourceDecorations(wr, id, res_binding) ==
    IF res_binding.some
    THEN decorate(decorate(wr, id, "DescriptorSet", <<res_binding.group>>),
                  id, "Binding", <<res_binding.binding>>)
    ELSE wr

write_global_variable(wr, ir_module, global_variable) ==
    Bind(id_gen_next(wr), LAMBDA g :
    Bind(get_pointer_id(g.w, ir_module.types, global_variable.ty,
                        map_storage_class(global_variable.class)),
         LAMBDA p :
      [w |-> IF Failed(p.w) THEN p.w
             ELSE ResourceDecorations(
                     AccessDecorations(
                        DebugName(p.w, g.id, global_variable.name),
                        g.id, StorageAccessOf(ir_module, global_variable)),
                     g.id, global_variable.binding),
       id |-> IF Failed(p.w) THEN 0 ELSE g.id,
       instruction |->
          Instruction("OpVariable", g.id, p.id,
                      IF global_variable.init # 0
                      THEN << wr.constant_ids[global_variable.init] >>
                      ELSE <<>>,
                      map_storage_class(global_variable.class), <<>>, "")]))

get_function_type(wr, lookup_function_type) ==
    IF lookup_function_type \in DOMAIN wr.lookup_function_type
    THEN [w |-> wr, id |-> wr.lookup_function_type[lookup_function_type]]
    ELSE Bind(id_gen_next(wr), LAMBDA g :
           [w |-> [Emit(g.w, "declarations",
                        Instruction("OpTypeFunction", g.id, 0,
                            <<lookup_function_type.return_type_id>>
                               \o lookup_function_type.parameter_type_ids,
                            "", <<>>, ""))
                     EXCEPT !.lookup_function_type =
                               Insert(@, lookup_function_type, g.id)],
            id |-> g.id])

\* A variant of write_physical_layout whose bound is the last id itself:
\* C4_Bound rejects it.
write_physical_layout_off_by_one(wr) ==
    [wr EXCEPT !.physical_layout.bound = wr.id_gen]

write_physical_layout(wr) ==
    [wr EXCEPT !.physical_layout.bound = wr.id_gen + 1]

----------------------------------------------------------------------------
(* Function emission                                                        *)
(*                                                                          *)
(* write_function is a sequence of stages over a record `acc` of the        *)
(* writer and the locals of the Rust function: function.variables,          *)
(* prelude.body, iface.varying_ids, ep_context, function.parameters,        *)
(* parameter_type_ids, return_type_id, the ids and the signature.  A stage  *)
(* that finds the writer failed leaves `acc` as it is.                      *)

NoInterface == [some |-> FALSE, stage |-> ""]

FunctionInterface(stage) == [some |-> TRUE, stage |-> stage]

\* Binding::to_built_in: the built-in of a binding, "" for a location
to_built_in(binding) == IF binding.b = "BuiltIn" THEN binding.built_in ELSE ""

Load(type_id, id, pointer_id) ==
    Instruction("OpLoad", id, type_id, <<pointer_id>>, "", <<>>, "")

\* the locals of write_function before its first statement
FunctionStart(wr) ==
    [w |-> wr, variables |-> <<>>, prelude_id |-> 0, prelude |-> <<>>,
     varying_ids |-> <<>>, argument_ids |-> <<>>, constituent_ids |-> <<>>,
     parameters |-> <<>>, parameter_type_ids |-> <<>>, results |-> <<>>,
     has_point_size |-> FALSE, return_type_id |-> 0, function_id |-> 0,
     signature |-> <<>>, main_id |-> 0, body |-> <<>>]

\* one iteration of the loop over ir_function.local_variables
LocalVariableStep(acc, ir_module, variable) ==
    Bind(id_gen_next(acc.w), LAMBDA g :
    Bind(get_pointer_id(DebugName(g.w, g.id, variable.name), ir_module.types,
                        variable.ty, "Function"),
         LAMBDA p :
      [acc EXCEPT
         !.w = p.w,
         !.variables = Append(@,
             Instruction("OpVariable", g.id, p.id,
                         IF variable.init # 0
                         THEN << acc.w.constant_ids[variable.init] >>
                         ELSE <<>>,
                         "Function", <<>>, ""))]))

RECURSIVE LocalVariables(_, _, _, _)
LocalVariables(acc, ir_module, local_variables, i) ==
    IF i > Len(local_variables) \/ Failed(acc.w) THEN acc
    ELSE LocalVariables(LocalVariableStep(acc, ir_module, local_variables[i]),
                        ir_module, local_variables, i + 1)

\* A variant of the prelude label that takes the last id handed out and no
\* fresh one: C3_Ids rejects it.
Prelude_reusing_last_id(acc) ==
    IF Failed(acc.w) THEN acc
    ELSE [acc EXCEPT !.prelude_id = acc.w.id_gen]

\* `let prelude_id = self.id_gen.next()`
Prelude(acc) ==
    IF Failed(acc.w) THEN acc
    ELSE Bind(id_gen_next(acc.w), LAMBDA g :
           [acc EXCEPT !.w = g.w, !.prelude_id = g.id])

\* `member.binding.as_ref().unwrap()`, then write_varying
MemberVarying(wr, ir_module, class, member) ==
    IF member.binding = NoBinding
    THEN [w |-> Abort(wr, "called Option::unwrap() on a None value"), id |-> 0]
    ELSE write_varying(wr, ir_module, class, member.name, member.ty,
                       member.binding)

\* A variant of the member loop of a struct argument that does not record
\* the varying in the interface: C27_Interface rejects it.
ArgumentMemberStep_unlisted(acc, ir_module, member) ==
    Bind(get_type_id(acc.w, Handle(member.ty)), LAMBDA t :
    Bind(MemberVarying(t.w, ir_module, "Input", member), LAMBDA v :
      IF Failed(v.w) THEN [acc EXCEPT !.w = v.w]
      ELSE Bind(id_gen_next(v.w), LAMBDA g :
             [acc EXCEPT
                !.w = g.w,
                !.prelude = Append(@, Load(t.id, g.id, v.id)),
                !.constituent_ids = Append(@, g.id)])))

\* one iteration of the loop over the members of a struct argument of an
\* entry point: a varying and a load per member
ArgumentMemberStep(acc, ir_module, member) ==
    Bind(get_type_id(acc.w, Handle(member.ty)), LAMBDA t :
    Bind(MemberVarying(t.w, ir_module, "Input", member), LAMBDA v :
      IF Failed(v.w) THEN [acc EXCEPT !.w = v.w]
      ELSE Bind(id_gen_next(v.w), LAMBDA g :
             [acc EXCEPT
                !.w = g.w,
                !.prelude = Append(@, Load(t.id, g.id, v.id)),
                !.varying_ids = Append(@, v.id),
                !.constituent_ids = Append(@, g.id)])))

RECURSIVE ArgumentMembers(_, _, _, _)
ArgumentMembers(acc, ir_module, members, i) ==
    IF i > Len(members) \/ Failed(acc.w) THEN acc
    ELSE ArgumentMembers(ArgumentMemberStep(acc, ir_module, members[i]),
                         ir_module, members, i + 1)

\* an argument of an entry point that carries a binding
BoundArgument(acc, a, ir_module, argument) ==
    Bind(write_varying(a.w, ir_module, "Input", argument.name, argument.ty,
                       argument.binding),
         LAMBDA v :
      IF Failed(v.w) THEN [acc EXCEPT !.w = v.w]
      ELSE Bind(id_gen_next(v.w), LAMBDA g :
             [acc EXCEPT
                !.w = g.w,
                !.varying_ids = Append(@, v.id),
                !.prelude = Append(@, Load(a.id, g.id, v.id)),
                !.argument_ids = Append(@, g.id)]))

\* an argument of an entry point that is a struct of bound members
StructArgument(acc, a, ir_module, members) ==
    Bind(id_gen_next(a.w), LAMBDA g :
    Bind(ArgumentMembers([acc EXCEPT !.w = g.w, !.constituent_ids = <<>>],
                         ir_module, members, 1),
         LAMBDA ms :
      IF Failed(ms.w) THEN ms
      ELSE [ms EXCEPT
              !.prelude = Append(@,
                  Instruction("OpCompositeConstruct", g.id, a.id,
                              ms.constituent_ids, "", <<>>, "")),
              !.argument_ids = Append(@, g.id)]))

\* the handle_id of a parameter of a regular function: the id of the load of
\* an image or a sampler, else 0
ParameterHandle(acc, wr, handle_ty, instruction, argument, argument_id, argument_type_id) ==
    IF handle_ty
    THEN Bind(id_gen_next(wr), LAMBDA h :
         Bind(get_type_id(h.w, Handle(argument.ty)), LAMBDA t :
           [acc EXCEPT
              !.w = t.w,
              !.prelude = Append(@, Load(t.id, h.id, argument_id)),
              !.parameters = Append(@, [instruction |-> instruction,
                                        handle_id |-> h.id]),
              !.parameter_type_ids = Append(@, argument_type_id)]))
    ELSE [acc EXCEPT
            !.w = wr,
            !.parameters = Append(@, [instruction |-> instruction,
                                      handle_id |-> 0]),
            !.parameter_type_ids = Append(@, argument_type_id)]

\* an argument of a regular function: an OpFunctionParameter
Parameter(acc, a, handle_ty, argument) ==
    Bind(id_gen_next(a.w), LAMBDA g :
      ParameterHandle(acc, DebugName(g.w, g.id, argument.name), handle_ty,
                      Instruction("OpFunctionParameter", g.id, a.id, <<>>, "",
                                  <<>>, ""),
                      argument, g.id, a.id))

\* one iteration of the loop over ir_function.arguments
ArgumentStep(acc, ir_module, interface, argument) ==
    Bind(IF is_handle(ir_module.types[argument.ty].inner)
         THEN get_pointer_id(acc.w, ir_module.types, argument.ty,
                             "UniformConstant")
         ELSE get_type_id(acc.w, Handle(argument.ty)),
         LAMBDA a :
      IF Failed(a.w) THEN [acc EXCEPT !.w = a.w]
      ELSE IF ~interface.some
      THEN Parameter(acc, a, is_handle(ir_module.types[argument.ty].inner),
                     argument)
      ELSE IF argument.binding # NoBinding
      THEN BoundArgument(acc, a, ir_module, argument)
      ELSE IF ir_module.types[argument.ty].inner.ti = "Struct"
      THEN StructArgument(acc, a, ir_module,
                          ir_module.types[argument.ty].inner.members)
      ELSE [acc EXCEPT !.w =
              Abort(a.w, "Missing argument binding on an entry point")])

RECURSIVE Arguments(_, _, _, _, _)
Arguments(acc, ir_module, interface, arguments, i) ==
    IF i > Len(arguments) \/ Failed(acc.w) THEN acc
    ELSE Arguments(ArgumentStep(acc, ir_module, interface, arguments[i]),
                   ir_module, interface, arguments, i + 1)

\* the varying of one bound result (the result itself, or a struct member)
ResultVarying(acc, ir_module, member) ==
    Bind(get_type_id(acc.w, Handle(member.ty)), LAMBDA t :
    Bind(MemberVarying(t.w, ir_module, "Output", member), LAMBDA v :
      IF Failed(v.w) THEN [acc EXCEPT !.w = v.w]
      ELSE [acc EXCEPT
              !.w = v.w,
              !.has_point_size = @ \/ member.binding = BuiltIn("PointSize"),
              !.varying_ids = Append(@, v.id),
              !.results = Append(@, [id |-> v.id, type_id |-> t.id,
                                     built_in |-> to_built_in(member.binding)])]))

RECURSIVE ResultMembers(_, _, _, _)
ResultMembers(acc, ir_module, members, i) ==
    IF i > Len(members) \/ Failed(acc.w) THEN acc
    ELSE ResultMembers(ResultVarying(acc, ir_module, members[i]),
                       ir_module, members, i + 1)

\* "add point size artificially"
ForcePointSize(acc) ==
    Bind(id_gen_next(acc.w), LAMBDA g :
    Bind(get_float_pointer_type_id(g.w, "Output"), LAMBDA p :
    Bind(get_constant_scalar(
            [Emit(p.w, "declarations",
                  Instruction("OpVariable", g.id, p.id, <<>>, "Output", <<>>, ""))
               EXCEPT !.annotations = Append(@,
                  Instruction("OpDecorate", 0, 0, <<g.id>>, "BuiltIn", <<>>,
                              "PointSize"))],
            [kind |-> "Float", v |-> 1], 4),
         LAMBDA c :
      [acc EXCEPT
         !.w = c.w,
         !.varying_ids = Append(@, g.id),
         !.prelude = Append(@, Instruction("OpStore", 0, 0, <<g.id, c.id>>, "",
                                           <<>>, ""))])))

\* the output varyings of an entry point
Results(acc, ir_module, result) ==
    IF result.binding # NoBinding
    THEN ResultVarying(acc, ir_module,
                       [name |-> "", ty |-> result.ty, binding |-> result.binding])
    ELSE IF ir_module.types[result.ty].inner.ti = "Struct"
    THEN ResultMembers(acc, ir_module, ir_module.types[result.ty].inner.members, 1)
    ELSE [acc EXCEPT !.w = Abort(@, "Missing result binding on an entry point")]

\* the end of the return type of an entry point: the forced point size, void
EntryPointReturn(acc, interface) ==
    IF Failed(acc.w) THEN acc
    ELSE IF "FORCE_POINT_SIZE" \in acc.w.flags /\ interface.stage = "Vertex"
            /\ ~acc.has_point_size
    THEN [ForcePointSize(acc) EXCEPT !.return_type_id = acc.w.void_type]
    ELSE [acc EXCEPT !.return_type_id = acc.w.void_type]

\* A variant of the return type that gives an entry point the type of its IR
\* result, as a regular function: C22_EntryPointSignature rejects it.
ReturnType_as_declared(acc, ir_module, ir_function, interface) ==
    IF Failed(acc.w) THEN acc
    ELSE IF ~ir_function.result.some
    THEN [acc EXCEPT !.return_type_id = acc.w.void_type]
    ELSE Bind(get_type_id(acc.w, Handle(ir_function.result.ty)), LAMBDA t :
           [acc EXCEPT !.w = t.w, !.return_type_id = t.id])

\* the return type of the function; for an entry point the output varyings
ReturnType(acc, ir_module, ir_function, interface) ==
    IF Failed(acc.w) THEN acc
    ELSE IF ~ir_function.result.some
    THEN [acc EXCEPT !.return_type_id = acc.w.void_type]
    ELSE IF interface.some
    THEN EntryPointReturn(Results(acc, ir_module, ir_function.result), interface)
    ELSE Bind(get_type_id(acc.w, Handle(ir_function.result.ty)), LAMBDA t :
           [acc EXCEPT !.w = t.w, !.return_type_id = t.id])

\* A variant of the signature that leaves the handle ids of the globals as
\* the function before left them: C26_HandleIds rejects it.
Signature_keeping_handles(acc, ir_function) ==
    IF Failed(acc.w) THEN acc
    ELSE Bind(id_gen_next(acc.w), LAMBDA f :
         Bind(get_function_type(
                 DebugName(f.w, f.id, ir_function.name),
                 [parameter_type_ids |-> acc.parameter_type_ids,
                  return_type_id |-> acc.return_type_id]),
              LAMBDA ft :
           [acc EXCEPT
              !.w = ft.w,
              !.function_id = f.id,
              !.signature = Instruction("OpFunction", f.id, acc.return_type_id,
                                        <<ft.id>>, "", <<>>, "")]))

\* the function id, its debug name, its type and its OpFunction; then the
\* reset of the handle ids of the globals
Signature(acc, ir_function) ==
    IF Failed(acc.w) THEN acc
    ELSE Bind(id_gen_next(acc.w), LAMBDA f :
         Bind(get_function_type(
                 DebugName(f.w, f.id, ir_function.name),
                 [parameter_type_ids |-> acc.parameter_type_ids,
                  return_type_id |-> acc.return_type_id]),
              LAMBDA ft :
           [acc EXCEPT
              !.w = [ft.w EXCEPT !.global_variables =
                       [i \in 1..Len(@) |-> reset_for_function(@[i])]],
              !.function_id = f.id,
              !.signature = Instruction("OpFunction", f.id, acc.return_type_id,
                                        <<ft.id>>, "", <<>>, "")]))

\* A variant of the handle load that loads every Handle global, used by the
\* function or not: C24_NoDummyLoaded rejects it.
HandleLoadStep_every_handle(acc, ir_module, info, handle) ==
    IF ir_module.global_variables[handle].class # "Handle"
    THEN acc
    ELSE Bind(id_gen_next(acc.w), LAMBDA g :
         Bind(get_type_id(g.w, Handle(ir_module.global_variables[handle].ty)),
              LAMBDA t :
           IF Failed(t.w) THEN [acc EXCEPT !.w = t.w]
           ELSE [acc EXCEPT
                   !.w = [t.w EXCEPT !.global_variables[handle].handle_id = g.id],
                   !.prelude = Append(@, Load(t.id, g.id,
                                              t.w.global_variables[handle].id))]))

\* "fill up the GlobalVariable::handle_id": one iteration of the loop over
\* ir_module.global_variables
HandleLoadStep(acc, ir_module, info, handle) ==
    IF info.global_uses[handle] = {}
       \/ ir_module.global_variables[handle].class # "Handle"
    THEN acc
    ELSE Bind(id_gen_next(acc.w), LAMBDA g :
         Bind(get_type_id(g.w, Handle(ir_module.global_variables[handle].ty)),
              LAMBDA t :
           IF Failed(t.w) THEN [acc EXCEPT !.w = t.w]
           ELSE [acc EXCEPT
                   !.w = [t.w EXCEPT !.global_variables[handle].handle_id = g.id],
                   !.prelude = Append(@, Load(t.id, g.id,
                                              t.w.global_variables[handle].id))]))

RECURSIVE HandleLoads(_, _, _, _)
HandleLoads(acc, ir_module, info, handle) ==
    IF handle > Len(ir_module.global_variables) \/ Failed(acc.w) THEN acc
    ELSE HandleLoads(HandleLoadStep(acc, ir_module, info, handle),
                     ir_module, info, handle + 1)

\* The expression and statement translator (BlockContext) is outside the
\* writer.  What it asks of the writer while it compiles a function body is
\* given by the IR function as a list of requests: the type of an expression,
\* a scalar constant, a capability, a fresh result id for an instruction it
\* emits, or an error of its own.  The instructions go to the field `field`
\* of acc: the prelude for the pre-emitted expressions, else the main block.
TranslateStep(acc, request, field) ==
    CASE request.s = "Type" ->
            [acc EXCEPT !.w = get_expression_type_id(@, request.tr).w]
      [] request.s = "Const" ->
            [acc EXCEPT !.w = get_constant_scalar(@, request.value,
                                                  request.width).w]
      [] request.s = "Require" ->
            [acc EXCEPT !.w = require_any(@, request.what, request.caps)]
      [] request.s = "Emit" ->
            Bind(id_gen_next(acc.w), LAMBDA g :
              [acc EXCEPT !.w = g.w,
                          ![field] = Append(@, Instruction("OpExpression", g.id, 0,
                                                           <<>>, "", <<>>, ""))])
      [] request.s = "Error" ->
            [acc EXCEPT !.w = Fail(@, Error("Translator", "", <<>>))]

RECURSIVE Translate(_, _, _, _)
Translate(acc, requests, field, i) ==
    IF i > Len(requests) \/ Failed(acc.w) THEN acc
    ELSE Translate(TranslateStep(acc, requests[i], field), requests, field, i + 1)

\* A variant of the main block that takes the label of the prelude and no
\* fresh id: C12_Prelude rejects it.
MainBlock_label_of_prelude(acc, ir_function) ==
    IF Failed(acc.w) THEN acc
    ELSE Translate([acc EXCEPT !.main_id = acc.prelude_id],
                   ir_function.body, "body", 1)

\* `let main_id = context.gen_id()`, then write_block for the body
MainBlock(acc, ir_function) ==
    IF Failed(acc.w) THEN acc
    ELSE Bind(id_gen_next(acc.w), LAMBDA m :
           Translate([acc EXCEPT !.w = m.w, !.main_id = m.id],
                     ir_function.body, "body", 1))

\* Function::to_words: the signature, the parameters, then each block: its
\* label, the function's variables in the first block, its body.  The
\* variables are the values of a hash map: they come in the order `order`.
Function_to_words(function, order) ==
    <<function.signature>>
      \o [i \in 1..Len(function.parameters) |-> function.parameters[i].instruction]
      \o <<Instruction("OpLabel", function.blocks[1].label_id, 0, <<>>, "", <<>>, "")>>
      \o [i \in 1..Len(order) |-> function.variables[order[i]]]
      \o function.blocks[1].body
      \o <<Instruction("OpLabel", function.blocks[2].label_id, 0, <<>>, "", <<>>, "")>>
      \o function.blocks[2].body

\* the Function that write_function has built: the prelude block ends with
\* the branch to the main block, the main block with its return
BuiltFunction(acc, interface) ==
    [signature |-> acc.signature,
     parameters |-> acc.parameters,
     variables |-> acc.variables,
     blocks |-> << [label_id |-> acc.prelude_id,
                    body |-> Append(acc.prelude,
                        Instruction("OpBranch", 0, 0, <<acc.main_id>>, "", <<>>, ""))],
                   [label_id |-> acc.main_id,
                    body |-> Append(acc.body,
                        Instruction("OpReturn", 0, 0, <<>>, "", <<>>, ""))] >>,
     entry_point_context |->
         IF interface.some
         THEN [some |-> TRUE, argument_ids |-> acc.argument_ids,
               results |-> acc.results]
         ELSE [some |-> FALSE, argument_ids |-> <<>>, results |-> <<>>]]

\* the end of write_function: the words of the function and OpFunctionEnd
FunctionEnd(acc, interface, order) ==
    IF Failed(acc.w) THEN [w |-> acc.w, id |-> 0, varying_ids |-> acc.varying_ids]
    ELSE [w |-> [acc.w EXCEPT !.logical_layout.function_definitions =
                    @ \o Function_to_words(BuiltFunction(acc, interface), order)
                      \o <<Instruction("OpFunctionEnd", 0, 0, <<>>, "", <<>>, "")>>],
          id |-> acc.function_id,
          varying_ids |-> acc.varying_ids]

\* the handle loads and the pre-emitted expressions, into the prelude
HandlesAndPreEmit(acc, ir_function, info, ir_module) ==
    IF Failed(acc.w) THEN acc
    ELSE Translate(HandleLoads(acc, ir_module, info, 1),
                   ir_function.pre_emit, "prelude", 1)

write_function(wr, ir_function, info, ir_module, interface, order) ==
    FunctionEnd(
      MainBlock(
        HandlesAndPreEmit(
          Signature(
            ReturnType(
              Arguments(
                Prelude(
                  LocalVariables(FunctionStart(wr), ir_module,
                                 ir_function.local_variables, 1)),
                ir_module, interface, ir_function.arguments, 1),
              ir_module, ir_function, interface),
            ir_function),
          ir_function, info, ir_module),
        ir_function),
      interface, order)

\* A variant of write_execution_mode that writes into the entry point
\* section: C5_SectionOrder rejects it.
write_execution_mode_among_entry_points(wr, function_id, mode) ==
    Emit(wr, "entry_points",
         Instruction("OpExecutionMode", 0, 0, <<function_id>>, mode, <<>>, ""))

write_execution_mode(wr, function_id, mode) ==
    Emit(wr, "execution_modes",
         Instruction("OpExecutionMode", 0, 0, <<function_id>>, mode, <<>>, ""))

\* helpers::contains_builtin: the binding is the built-in, or the type is a
\* struct one of whose members carries it
RECURSIVE contains_builtin(_, _, _, _)
contains_builtin(binding, ty, arena, built_in) ==
    IF binding # NoBinding THEN binding = BuiltIn(built_in)
    ELSE IF arena[ty].inner.ti = "Struct"
    THEN \E i \in 1..Len(arena[ty].inner.members) :
            contains_builtin(arena[ty].inner.members[i].binding,
                             arena[ty].inner.members[i].ty, arena, built_in)
    ELSE FALSE

\* A variant of the execution modes that gives every fragment entry point
\* DepthReplacing: C20_ExecutionModes rejects it.
ExecutionModes_depth_always(wr, entry_point, ir_module, function_id) ==
    CASE entry_point.stage = "Vertex" -> wr
      [] entry_point.stage = "Fragment" ->
            write_execution_mode(
               write_execution_mode(wr, function_id, "OriginUpperLeft"),
               function_id, "DepthReplacing")
      [] entry_point.stage = "Compute" ->
            Emit(wr, "execution_modes",
                 Instruction("OpExecutionMode", 0, 0, <<function_id>>,
                             "LocalSize", entry_point.workgroup_size, ""))

\* the execution modes of the stage of an entry point
ExecutionModes(wr, entry_point, ir_module, function_id) ==
    CASE entry_point.stage = "Vertex" -> wr
      [] entry_point.stage = "Fragment" ->
            IF entry_point.function.result.some
               /\ contains_builtin(entry_point.function.result.binding,
                                   entry_point.function.result.ty,
                                   ir_module.types, "FragDepth")
            THEN write_execution_mode(
                    write_execution_mode(wr, function_id, "OriginUpperLeft"),
                    function_id, "DepthReplacing")
            ELSE write_execution_mode(wr, function_id, "OriginUpperLeft")
      [] entry_point.stage = "Compute" ->
            Emit(wr, "execution_modes",
                 Instruction("OpExecutionMode", 0, 0, <<function_id>>,
                             "LocalSize", entry_point.workgroup_size, ""))

\* the execution model of a shader stage
ExecutionModel(stage) ==
    CASE stage = "Vertex" -> "Vertex"
      [] stage = "Fragment" -> "Fragment"
      [] stage = "Compute" -> "GLCompute"

write_entry_point(wr, entry_point, info, ir_module, order) ==
    Bind(write_function(wr, entry_point.function, info, ir_module,
                        FunctionInterface(entry_point.stage), order),
         LAMBDA fr :
      IF Failed(fr.w) THEN [w |-> fr.w, instruction |-> <<>>]
      ELSE [w |-> ExecutionModes(fr.w, entry_point, ir_module, fr.id),
            instruction |-> << Instruction("OpEntryPoint", 0, 0,
                                  <<fr.id>> \o fr.varying_ids,
                                  ExecutionModel(entry_point.stage), <<>>,
                                  entry_point.name) >>])

----------------------------------------------------------------------------
(* The module driver: write_logical_layout, pass by pass                    *)

NoIndex == 0

RECURSIVE has_view_index_check(_, _, _)
has_view_index_check(ir_module, binding, ty) ==
    IF ir_module.types[ty].inner.ti = "Struct"
    THEN \E i \in 1..Len(ir_module.types[ty].inner.members) :
            has_view_index_check(ir_module,
                                 ir_module.types[ty].inner.members[i].binding,
                                 ir_module.types[ty].inner.members[i].ty)
    ELSE binding = BuiltIn("ViewIndex")

\* whether some global is a storage buffer
has_storage_buffers(ir_module) ==
    \E g \in 1..Len(ir_module.global_variables) :
        ir_module.global_variables[g].class = "Storage"

\* whether some argument of some entry point is the view index
has_view_index(ir_module) ==
    \E e \in 1..Len(ir_module.entry_points) :
        \E a \in 1..Len(ir_module.entry_points[e].function.arguments) :
            has_view_index_check(ir_module,
                ir_module.entry_points[e].function.arguments[a].binding,
                ir_module.entry_points[e].function.arguments[a].ty)

\* A variant of the extensions that enables the storage buffer class whatever
\* the version: C21_StorageBufferExtension rejects it.
Extensions_any_version(wr, ir_module) ==
    [wr EXCEPT !.logical_layout.extensions = @ \o
        (IF has_storage_buffers(ir_module)
         THEN <<Instruction("OpExtension", 0, 0, <<>>, "", <<>>,
                            "SPV_KHR_storage_buffer_storage_class")>>
         ELSE <<>>)
        \o
        (IF has_view_index(ir_module)
         THEN <<Instruction("OpExtension", 0, 0, <<>>, "", <<>>,
                            "SPV_KHR_multiview")>>
         ELSE <<>>)]

\* the OpExtension instructions of the module
Extensions(wr, ir_module) ==
    [wr EXCEPT !.logical_layout.extensions = @ \o
        (IF wr.physical_layout.version < RawVersion(1, 3)
            /\ has_storage_buffers(ir_module)
         THEN <<Instruction("OpExtension", 0, 0, <<>>, "", <<>>,
                            "SPV_KHR_storage_buffer_storage_class")>>
         ELSE <<>>)
        \o
        (IF has_view_index(ir_module)
         THEN <<Instruction("OpExtension", 0, 0, <<>>, "", <<>>,
                            "SPV_KHR_multiview")>>
         ELSE <<>>)]

\* the OpSource of a debug build
DebugSource(wr) ==
    IF "DEBUG" \in wr.flags
    THEN PushDebug(wr, Instruction("OpSource", 0, 0, <<>>, "GLSL", <<450>>, ""))
    ELSE wr

\* from the start of write_logical_layout to the resize of constant_ids
LayoutStart(wr, ir_module) ==
    [DebugSource(
        Emit(Emit(Extensions(wr, ir_module), "declarations",
                  Instruction("OpTypeVoid", wr.void_type, 0, <<>>, "", <<>>, "")),
             "ext_inst_imports",
             Instruction("OpExtInstImport", wr.gl450_ext_inst_id, 0, <<>>, "",
                         <<>>, "GLSL.std.450")))
       EXCEPT !.constant_ids =
            [i \in 1..Len(ir_module.constants) |->
                IF i <= Len(@) THEN @[i] ELSE 0]]

\* A variant of the named branch of the scalar pass that interns the value
\* like the unnamed branch: C7_ScalarConstants rejects it.
NamedScalarConstant_interned(wr, constant, handle) ==
    Bind(get_constant_scalar(wr, constant.inner.value, constant.inner.width),
         LAMBDA c :
      IF Failed(c.w) THEN c.w ELSE [c.w EXCEPT !.constant_ids[handle] = c.id])

\* a named scalar constant: "It's a global constant, needs a fresh id"
NamedScalarConstant(wr, constant, handle) ==
    Bind(id_gen_next(wr), LAMBDA g :
    Bind(write_constant_scalar(g.w, g.id, constant.inner.value,
                               constant.inner.width, constant.name),
         LAMBDA w1 :
      IF Failed(w1) THEN w1 ELSE [w1 EXCEPT !.constant_ids[handle] = g.id]))

\* an unnamed scalar constant: the cached id of its value
UnnamedScalarConstant(wr, constant, handle) ==
    Bind(get_constant_scalar(wr, constant.inner.value, constant.inner.width),
         LAMBDA c :
      IF Failed(c.w) THEN c.w ELSE [c.w EXCEPT !.constant_ids[handle] = c.id])

\* "first, output all the scalar constants": one iteration
ScalarConstantStep(wr, ir_module, handle) ==
    IF ir_module.constants[handle].inner.ci = "Composite" THEN wr
    ELSE IF ir_module.constants[handle].name # ""
    THEN NamedScalarConstant(wr, ir_module.constants[handle], handle)
    ELSE UnnamedScalarConstant(wr, ir_module.constants[handle], handle)

\* "then all types": one iteration
TypeStep(wr, ir_module, handle) ==
    write_type_declaration_arena(wr, ir_module.types, handle).w

\* A variant of the composite pass that does not record the id of the
\* constant: C9_ConstantIds rejects it.
CompositeConstantStep_unrecorded(wr, ir_module, handle) ==
    IF ir_module.constants[handle].inner.ci = "Scalar" THEN wr
    ELSE Bind(id_gen_next(wr), LAMBDA g :
           write_constant_composite(
              DebugName(g.w, g.id, ir_module.constants[handle].name),
              g.id, ir_module.constants[handle].inner.ty,
              ir_module.constants[handle].inner.components))

\* "the all the composite constants": one iteration
CompositeConstantStep(wr, ir_module, handle) ==
    IF ir_module.constants[handle].inner.ci = "Scalar" THEN wr
    ELSE Bind(id_gen_next(wr), LAMBDA g :
           write_constant_composite(
              DebugName([g.w EXCEPT !.constant_ids[handle] = g.id], g.id,
                        ir_module.constants[handle].name),
              g.id, ir_module.constants[handle].inner.ty,
              ir_module.constants[handle].inner.components))

\* ModuleInfo::get_entry_point(index) and ModuleInfo[handle]
get_entry_point(mod_info, index) == mod_info.entry_points[index]

\* FunctionInfo::dominates_global_use
dominates_global_use(ep_info, info) ==
    \A g \in 1..Len(info.global_uses) :
        info.global_uses[g] \subseteq ep_info.global_uses[g]

\* A variant of the global loop that writes every global, whatever the
\* selected entry point uses: C11_Globals rejects it.
GlobalStep_always_written(wr, ir_module, mod_info, index, handle) ==
    Bind(write_global_variable(wr, ir_module, ir_module.global_variables[handle]),
         LAMBDA r :
      IF Failed(r.w) THEN r.w
      ELSE [Emit(r.w, "declarations", r.instruction)
              EXCEPT !.global_variables = Append(@, GlobalVariable_new(r.id))])

\* "now write all globals": one iteration
GlobalStep(wr, ir_module, mod_info, index, handle) ==
    IF index # NoIndex
       /\ get_entry_point(mod_info, index).global_uses[handle] = {}
    THEN [wr EXCEPT !.global_variables = Append(@, GlobalVariable_dummy)]
    ELSE Bind(write_global_variable(wr, ir_module,
                                    ir_module.global_variables[handle]),
              LAMBDA r :
           IF Failed(r.w) THEN r.w
           ELSE [Emit(r.w, "declarations", r.instruction)
                   EXCEPT !.global_variables = Append(@, GlobalVariable_new(r.id))])

\* A variant of the test of the function loop that skips nothing:
\* C23_FunctionPruning rejects it.
SkipFunction_never(mod_info, index, handle) == FALSE

\* whether the loop over the functions skips this one
SkipFunction(mod_info, index, handle) ==
    index # NoIndex
    /\ ~dominates_global_use(get_entry_point(mod_info, index),
                             mod_info.functions[handle])

\* "all functions": one iteration
FunctionStep(wr, ir_module, mod_info, index, handle, order) ==
    IF SkipFunction(mod_info, index, handle) THEN wr
    ELSE Bind(write_function(wr, ir_module.functions[handle],
                             mod_info.functions[handle], ir_module,
                             NoInterface, order),
              LAMBDA r :
           IF Failed(r.w) THEN r.w
           ELSE [r.w EXCEPT !.lookup_function = Insert(@, handle, r.id)])

\* A variant of the entry point loop that ignores the selected index:
\* C17_SelectedEntryPoint rejects it.
EntryPointStep_all(wr, ir_module, mod_info, index, i, order) ==
    Bind(write_entry_point(wr, ir_module.entry_points[i],
                           get_entry_point(mod_info, i), ir_module, order),
         LAMBDA r :
      IF Failed(r.w) THEN r.w
      ELSE Emit(r.w, "entry_points", r.instruction[1]))

\* "and entry points": one iteration
EntryPointStep(wr, ir_module, mod_info, index, i, order) ==
    IF index # NoIndex /\ index # i THEN wr
    ELSE Bind(write_entry_point(wr, ir_module.entry_points[i],
                                get_entry_point(mod_info, i), ir_module, order),
              LAMBDA r :
           IF Failed(r.w) THEN r.w
           ELSE Emit(r.w, "entry_points", r.instruction[1]))

\* A variant of the end of write_logical_layout that never adds Linkage:
\* C10_Capabilities rejects it.
LayoutFlush_without_linkage(wr, ir_module, order) ==
    [wr EXCEPT
       !.logical_layout.capabilities = @ \o
            [i \in 1..Len(order) |->
               Instruction("OpCapability", 0, 0, <<>>, order[i], <<>>, "")],
       !.logical_layout.memory_model =
            Append(@, Instruction("OpMemoryModel", 0, 0, <<>>, "Logical", <<>>,
                                  "GLSL450")),
       !.logical_layout.debugs =
            IF "DEBUG" \in wr.flags THEN @ \o wr.debugs ELSE @,
       !.logical_layout.annotations = @ \o wr.annotations]

\* the end of write_logical_layout: capabilities, memory model, debug names
\* and annotations.  The capabilities are the elements of a hash set: they
\* come in the order `order`.
LayoutFlush(wr, ir_module, order) ==
    [wr EXCEPT
       !.logical_layout.capabilities = @ \o
            [i \in 1..Len(order) |->
               Instruction("OpCapability", 0, 0, <<>>, order[i], <<>>, "")]
            \o (IF ir_module.entry_points = <<>>
                THEN <<Instruction("OpCapability", 0, 0, <<>>, "Linkage", <<>>, "")>>
                ELSE <<>>),
       !.logical_layout.memory_model =
            Append(@, Instruction("OpMemoryModel", 0, 0, <<>>, "Logical", <<>>,
                                  "GLSL450")),
       !.logical_layout.debugs =
            IF "DEBUG" \in wr.flags THEN @ \o wr.debugs ELSE @,
       !.logical_layout.annotations = @ \o wr.annotations]

\* the orders in which the elements of a set can be iterated
Orders(S) ==
    { s \in [1..Cardinality(S) -> S] : \A i, j \in 1..Cardinality(S) :
                                          i # j => s[i] # s[j] }

\* one word of the physical header
Word(v) == Instruction("Word", 0, 0, <<>>, "", <<v>>, "")

\* PhysicalLayout::in_words: magic number, version, generator, bound, 0
PhysicalLayout_in_words(physical_layout) ==
    << Word(119734787), Word(physical_layout.version), Word(28),
       Word(physical_layout.bound), Word(0) >>

\* LogicalLayout::in_words: the sections in SPIR-V's order
LogicalLayout_in_words(logical_layout) ==
    logical_layout.capabilities \o logical_layout.extensions
      \o logical_layout.ext_inst_imports \o logical_layout.memory_model
      \o logical_layout.entry_points \o logical_layout.execution_modes
      \o logical_layout.debugs \o logical_layout.annotations
      \o logical_layout.declarations \o logical_layout.function_definitions

\* A variant of the search that compares the name only: C16_EntryPointNotFound
\* rejects it.
RECURSIVE position_by_name(_, _, _)
position_by_name(entry_points, pipeline_options, i) ==
    IF i > Len(entry_points) THEN NoIndex
    ELSE IF pipeline_options.entry_point = entry_points[i].name
    THEN i
    ELSE position_by_name(entry_points, pipeline_options, i + 1)

\* the entry point write() resolves: the first one with the stage and the
\* name of the pipeline options, NoIndex when there is none
RECURSIVE position(_, _, _)
position(entry_points, pipeline_options, i) ==
    IF i > Len(entry_points) THEN NoIndex
    ELSE IF pipeline_options.shader_stage = entry_points[i].stage
            /\ pipeline_options.entry_point = entry_points[i].name
    THEN i
    ELSE position(entry_points, pipeline_options, i + 1)

----------------------------------------------------------------------------
(* The IR modules the model writes                                          *)

Ty(name, inner) == [name |-> name, inner |-> inner]

TiScalar(kind, width) == [ti |-> "Scalar", kind |-> kind, width |-> width]

TiVector(size, kind, width) ==
    [ti |-> "Vector", size |-> size, kind |-> kind, width |-> width]

TiMatrix(columns, rows, width) ==
    [ti |-> "Matrix", columns |-> columns, rows |-> rows, width |-> width]

TiPointer(base, class) == [ti |-> "Pointer", base |-> base, class |-> class]

TiImage(dim, arrayed, class) ==
    [ti |-> "Image", dim |-> dim, arrayed |-> arrayed, class |-> class]

TiSampler == [ti |-> "Sampler"]

TiArray(base, size, stride) ==
    [ti |-> "Array", base |-> base, size |-> size, stride |-> stride]

TiStruct(top_level, members) ==
    [ti |-> "Struct", top_level |-> top_level, members |-> members]

Member(name, ty, binding, offset) ==
    [name |-> name, ty |-> ty, binding |-> binding, offset |-> offset]

Scalar(name, kind, v, width) ==
    [name |-> name,
     inner |-> [ci |-> "Scalar", width |-> width, value |-> [kind |-> kind, v |-> v]]]

Composite(name, ty, components) ==
    [name |-> name,
     inner |-> [ci |-> "Composite", ty |-> ty, components |-> components]]

NoResourceBinding == [some |-> FALSE, group |-> 0, binding |-> 0]

ResourceBinding(group, binding) ==
    [some |-> TRUE, group |-> group, binding |-> binding]

Global(name, class, access, binding, ty, init) ==
    [name |-> name, class |-> class, access |-> access, binding |-> binding,
     ty |-> ty, init |-> init]

Argument(name, ty, binding) == [name |-> name, ty |-> ty, binding |-> binding]

NoResult == [some |-> FALSE, ty |-> 0, binding |-> NoBinding]

Result(ty, binding) == [some |-> TRUE, ty |-> ty, binding |-> binding]

LocalVar(name, ty, init) == [name |-> name, ty |-> ty, init |-> init]

Function(name, arguments, result, local_variables, pre_emit, body) ==
    [name |-> name, arguments |-> arguments, result |-> result,
     local_variables |-> local_variables, pre_emit |-> pre_emit, body |-> body]

EntryPoint(stage, name, workgroup_size, function) ==
    [stage |-> stage, name |-> name, workgroup_size |-> workgroup_size,
     function |-> function]

FunctionInfo(global_uses) == [global_uses |-> global_uses]

\* no entry points, no functions, no types
EmptyModule ==
    [types |-> <<>>, constants |-> <<>>, global_variables |-> <<>>,
     functions |-> <<>>, entry_points |-> <<>>,
     info |-> [functions |-> <<>>, entry_points |-> <<>>]]

\* types and constants: a named alias of f32, equal scalar constants with and
\* without a name, composites of scalars and of composites, an f64 constant
ConstantsModule ==
    [types |-> << Ty("", TiScalar("Float", 4)),
                  Ty("Real", TiScalar("Float", 4)),
                  Ty("", TiVector(2, "Float", 4)),
                  Ty("", TiArray(3, [as |-> "Constant", c |-> 1], 8)),
                  Ty("", TiMatrix(2, 2, 4)),
                  Ty("Block", TiStruct(TRUE,
                        << Member("v", 3, NoBinding, 0),
                           Member("m", 5, NoBinding, 8) >>)) >>,
     constants |-> << Scalar("", "Uint", 2, 4),
                      Scalar("", "Uint", 2, 4),
                      Scalar("two", "Uint", 2, 4),
                      Scalar("", "Float", 1, 4),
                      Composite("", 3, <<4, 4>>),
                      Composite("pair", 4, <<5, 5>>),
                      Scalar("", "Float", 2, 8) >>,
     global_variables |-> << Global("g", "Private", {}, NoResourceBinding, 1, 4) >>,
     functions |-> <<>>,
     entry_points |-> <<>>,
     info |-> [functions |-> <<>>, entry_points |-> <<>>]]

\* resources, a function and one entry point per stage
ShaderModule ==
    [types |-> << Ty("", TiScalar("Float", 4)),
                  Ty("", TiVector(4, "Float", 4)),
                  Ty("", TiImage("D1", FALSE,
                        [ic |-> "Sampled", kind |-> "Float", multi |-> FALSE])),
                  Ty("", TiSampler),
                  Ty("", TiScalar("Uint", 4)),
                  Ty("VsOut", TiStruct(FALSE,
                        << Member("pos", 2, BuiltIn("Position"), 0) >>)),
                  Ty("Buf", TiStruct(TRUE,
                        << Member("x", 5, NoBinding, 0) >>)) >>,
     constants |-> << Scalar("", "Float", 1, 4) >>,
     global_variables |->
        << Global("tex", "Handle", {}, ResourceBinding(0, 0), 3, 0),
           Global("samp", "Handle", {}, ResourceBinding(0, 1), 4, 0),
           Global("buf", "Storage", {"LOAD"}, ResourceBinding(0, 2), 7, 0) >>,
     functions |->
        << Function("helper",
                    << Argument("x", 1, NoBinding), Argument("t", 3, NoBinding) >>,
                    Result(1, NoBinding),
                    << LocalVar("tmp", 1, 1) >>,
                    <<>>,
                    << [s |-> "Emit"],
                       [s |-> "Type", tr |-> [tr |-> "Value",
                                              inner |-> TiVector(2, "Float", 4)]],
                       [s |-> "Type", tr |-> [tr |-> "Handle", handle |-> 2]],
                       [s |-> "Emit"] >>),
           Function("store",
                    <<>>, NoResult, <<>>, <<>>,
                    << [s |-> "Const", value |-> [kind |-> "Uint", v |-> 0],
                        width |-> 4],
                       [s |-> "Emit"] >>) >>,
     entry_points |->
        << EntryPoint("Vertex", "main", <<0, 0, 0>>,
              Function("vs", << Argument("vi", 5, BuiltIn("VertexIndex")) >>,
                       Result(6, NoBinding), <<>>, <<>>, << [s |-> "Emit"] >>)),
           EntryPoint("Fragment", "main", <<0, 0, 0>>,
              Function("fs",
                       << Argument("pos", 2, BuiltIn("Position")),
                          Argument("si", 5, BuiltIn("SampleIndex")) >>,
                       Result(2, Location(0, "", "")), <<>>, <<>>,
                       << [s |-> "Emit"] >>)),
           EntryPoint("Compute", "cs", <<8, 8, 1>>,
              Function("cs", <<>>, NoResult, <<>>, <<>>, << [s |-> "Emit"] >>)) >>,
     info |->
        [functions |-> << FunctionInfo(<< {}, {"READ"}, {} >>),
                          FunctionInfo(<< {}, {}, {"READ", "WRITE"} >>) >>,
         entry_points |-> << FunctionInfo(<< {}, {}, {} >>),
                             FunctionInfo(<< {"READ"}, {"READ"}, {} >>),
                             FunctionInfo(<< {}, {}, {"READ", "WRITE"} >>) >>]]

\* vertex and fragment entry points by the shape of their result: none, one
\* bound value, a struct with and without PointSize, FragDepth in a struct
\* and alone; two entry points share stage and name, one takes a struct of
\* bound members
StagesModule ==
    [types |-> << Ty("", TiScalar("Float", 4)),
                  Ty("", TiVector(4, "Float", 4)),
                  Ty("VsSized", TiStruct(FALSE,
                        << Member("pos", 2, BuiltIn("Position"), 0),
                           Member("size", 1, BuiltIn("PointSize"), 16) >>)),
                  Ty("FsOut", TiStruct(FALSE,
                        << Member("depth", 1, BuiltIn("FragDepth"), 0) >>)),
                  Ty("", TiScalar("Uint", 4)),
                  Ty("FsIn", TiStruct(FALSE,
                        << Member("pos", 2, BuiltIn("Position"), 0),
                           Member("uv", 1, Location(0, "", ""), 16) >>)) >>,
     constants |-> <<>>,
     global_variables |-> <<>>,
     functions |-> <<>>,
     entry_points |->
        << EntryPoint("Vertex", "main", <<0, 0, 0>>,
              Function("vs_void", <<>>, NoResult, <<>>, <<>>, << [s |-> "Emit"] >>)),
           EntryPoint("Vertex", "main", <<0, 0, 0>>,
              Function("vs_pos", << Argument("vi", 5, BuiltIn("VertexIndex")) >>,
                       Result(2, BuiltIn("Position")), <<>>,
                       << [s |-> "Emit"] >>, << [s |-> "Emit"] >>)),
           EntryPoint("Vertex", "sized", <<0, 0, 0>>,
              Function("vs_sized", <<>>, Result(3, NoBinding), <<>>, <<>>,
                       << [s |-> "Emit"] >>)),
           EntryPoint("Fragment", "main", <<0, 0, 0>>,
              Function("fs_out", <<>>, Result(4, NoBinding), <<>>, <<>>,
                       << [s |-> "Emit"] >>)),
           EntryPoint("Fragment", "depth", <<0, 0, 0>>,
              Function("fs_depth",
                       << Argument("in", 6, NoBinding),
                          Argument("mask", 5, BuiltIn("SampleMask")) >>,
                       Result(1, BuiltIn("FragDepth")), <<>>,
                       <<>>, << [s |-> "Emit"] >>)) >>,
     info |->
        [functions |-> <<>>,
         entry_points |-> << FunctionInfo(<<>>), FunctionInfo(<<>>),
                             FunctionInfo(<<>>), FunctionInfo(<<>>),
                             FunctionInfo(<<>>) >>]]

\* a function whose body the expression translator refuses
BrokenModule ==
    [types |-> << Ty("", TiScalar("Float", 4)) >>,
     constants |-> <<>>,
     global_variables |-> <<>>,
     functions |->
        << Function("bad", <<>>, NoResult, <<>>, <<>>,
                    << [s |-> "Emit"], [s |-> "Error"] >>) >>,
     entry_points |-> <<>>,
     info |-> [functions |-> << FunctionInfo(<<>>) >>, entry_points |-> <<>>]]

Modules ==
    << EmptyModule, ConstantsModule, ShaderModule, StagesModule, BrokenModule >>

NoPipeline == [some |-> FALSE, shader_stage |-> "", entry_point |-> ""]

PipelineOptions(shader_stage, entry_point) ==
    [some |-> TRUE, shader_stage |-> shader_stage, entry_point |-> entry_point]

\* the pipeline options the caller passes
Pipelines ==
    { NoPipeline, PipelineOptions("Vertex", "main"),
      PipelineOptions("Fragment", "main"), PipelineOptions("Compute", "cs"),
      PipelineOptions("Compute", "main") }

Options(lang_version, flags, capabilities) ==
    [lang_version |-> lang_version, flags |-> flags,
     capabilities |-> capabilities, bounds_check_policies |-> "policies"]

\* the Options a writer is constructed with
OptionsPool ==
    { Options(<<1, 0>>, {}, NoneCaps),
      Options(<<1, 3>>, {"DEBUG", "LABEL_VARYINGS"}, NoneCaps),
      Options(<<1, 2>>, {"FORCE_POINT_SIZE"}, SomeCaps({"Shader"})),
      Options(<<1, 1>>, {"DEBUG", "FORCE_POINT_SIZE"},
              SomeCaps({"Shader", "Sampled1D", "SampleRateShading", "Float64"})),
      Options(<<2, 0>>, {}, NoneCaps),
      Options(<<0, 1>>, {}, NoneCaps) }

\* what the caller's vector holds when write() is called
Prefixes == { <<>>, << Word(7) >> }

----------------------------------------------------------------------------
(* The state machine: Writer::new, then write() calls, pass by pass         *)

Running == Error("Running", "", <<>>)

\* the record of an earlier write() that returned Ok: its module, its
\* pipeline options and the layouts its words were made of
NoLast ==
    [some |-> FALSE, mod |-> 0, po |-> NoPipeline,
     physical_layout |-> PhysicalLayout_new(0),
     logical_layout |-> EmptyLogicalLayout]

\* the caller keeps what the write() that just returned Ok produced
Remember ==
    IF writes > 0 /\ ret = NoError
    THEN [some |-> TRUE, mod |-> mod, po |-> po,
          physical_layout |-> w.physical_layout,
          logical_layout |-> w.logical_layout]
    ELSE last

Init ==
    /\ opts \in OptionsPool
    /\ w = NoWriter
    /\ pc = "new"
    /\ idx = 0
    /\ mod = 0
    /\ po = NoPipeline
    /\ ep_index = NoIndex
    /\ words = <<>>
    /\ words0 = <<>>
    /\ ret = Running
    /\ last = NoLast
    /\ writes = 0
    /\ calls = <<>>

\* Writer::new(&options)
New ==
    /\ pc = "new"
    /\ IF opts.lang_version[1] # 1
       THEN /\ ret' = Error("UnsupportedVersion", "", opts.lang_version)
            /\ pc' = "unsupported"
            /\ w' = w
       ELSE /\ ret' = NoError
            /\ pc' = "idle"
            /\ w' = Writer_new(opts)
    /\ UNCHANGED <<opts, idx, mod, po, ep_index, words, words0, last, writes, calls>>

\* test_write_physical_layout: write_physical_layout() called on the writer
\* that Writer::new returned
TestWritePhysicalLayout ==
    /\ pc = "idle"
    /\ writes = 0
    /\ w.physical_layout.bound = 0
    /\ w' = write_physical_layout(w)
    /\ UNCHANGED <<opts, pc, idx, mod, po, ep_index, words, words0, ret, last,
                   writes, calls>>

\* the arena a pass of write_logical_layout iterates over
PassLen(pass, ir_module) ==
    CASE pass = "scalars" -> Len(ir_module.constants)
      [] pass = "types" -> Len(ir_module.types)
      [] pass = "composites" -> Len(ir_module.constants)
      [] pass = "globals" -> Len(ir_module.global_variables)
      [] pass = "functions" -> Len(ir_module.functions)
      [] pass = "entry_points" -> Len(ir_module.entry_points)

NextPass(pass) ==
    CASE pass = "scalars" -> "types"
      [] pass = "types" -> "composites"
      [] pass = "composites" -> "globals"
      [] pass = "globals" -> "functions"
      [] pass = "functions" -> "entry_points"
      [] pass = "entry_points" -> "flush"

\* the position after iteration i - 1 of a pass: iteration i, or the start of
\* the next pass that has an element
RECURSIVE NextPos(_, _, _)
NextPos(pass, i, ir_module) ==
    IF pass = "flush" THEN <<"flush", 0>>
    ELSE IF i <= PassLen(pass, ir_module) THEN <<pass, i>>
    ELSE NextPos(NextPass(pass), 1, ir_module)

\* A variant of the error return of write() that hands the caller the words
\* of the sections built so far: C15_NoPartialOutput rejects it.
Continue_appending_on_error(w2, pass, i) ==
    /\ w' = w2
    /\ IF Failed(w2)
       THEN /\ pc' = IF w2.err.kind = "abort" THEN "aborted" ELSE "idle"
            /\ idx' = 0
            /\ ret' = w2.err
            /\ words' = words \o LogicalLayout_in_words(w2.logical_layout)
       ELSE /\ pc' = NextPos(pass, i, Modules[mod])[1]
            /\ idx' = NextPos(pass, i, Modules[mod])[2]
            /\ ret' = ret
            /\ words' = words
    /\ UNCHANGED <<opts, mod, po, ep_index, words0, last, writes, calls>>

\* write() goes on at position (pass, i) with the writer w2, or returns the
\* error a call propagated
Continue(w2, pass, i) ==
    /\ w' = w2
    /\ IF Failed(w2)
       THEN /\ pc' = IF w2.err.kind = "abort" THEN "aborted" ELSE "idle"
            /\ idx' = 0
            /\ ret' = w2.err
       ELSE /\ pc' = NextPos(pass, i, Modules[mod])[1]
            /\ idx' = NextPos(pass, i, Modules[mod])[2]
            /\ ret' = ret
    /\ UNCHANGED <<opts, mod, po, ep_index, words, words0, last, writes, calls>>

\* write(): reset() and the search of the entry point
Write(m, p, prefix) ==
    /\ pc = "idle"
    /\ writes < MaxWrites
    /\ LET index == IF p.some THEN position(Modules[m].entry_points, p, 1)
                    ELSE NoIndex
       IN  /\ w' = reset(w)
           /\ ep_index' = index
           /\ IF p.some /\ index = NoIndex
              THEN pc' = "idle" /\ ret' = Error("EntryPointNotFound", "", <<>>)
              ELSE pc' = "layout" /\ ret' = Running
    /\ mod' = m
    /\ po' = p
    /\ idx' = 0
    /\ words' = prefix
    /\ words0' = prefix
    /\ writes' = writes + 1
    /\ last' = Remember
    /\ UNCHANGED <<opts, calls>>

Start ==
    /\ pc = "layout"
    /\ Continue(LayoutStart(w, Modules[mod]), "scalars", 1)

ScalarConstant ==
    /\ pc = "scalars"
    /\ Continue(ScalarConstantStep(w, Modules[mod], idx), "scalars", idx + 1)

TypeDeclaration ==
    /\ pc = "types"
    /\ Continue(TypeStep(w, Modules[mod], idx), "types", idx + 1)

CompositeConstant ==
    /\ pc = "composites"
    /\ Continue(CompositeConstantStep(w, Modules[mod], idx), "composites", idx + 1)

GlobalVariable ==
    /\ pc = "globals"
    /\ Continue(GlobalStep(w, Modules[mod], Modules[mod].info, ep_index, idx),
                "globals", idx + 1)

WriteFunction ==
    /\ pc = "functions"
    /\ \E order \in Orders(1..Len(Modules[mod].functions[idx].local_variables)) :
          Continue(FunctionStep(w, Modules[mod], Modules[mod].info, ep_index, idx,
                                order),
                   "functions", idx + 1)

WriteEntryPoint ==
    /\ pc = "entry_points"
    /\ \E order \in Orders(1..Len(Modules[mod].entry_points[idx].function.local_variables)) :
          Continue(EntryPointStep(w, Modules[mod], Modules[mod].info, ep_index,
                                  idx, order),
                   "entry_points", idx + 1)

Flush ==
    /\ pc = "flush"
    /\ \E order \in Orders(w.capabilities_used) :
          w' = LayoutFlush(w, Modules[mod], order)
    /\ pc' = "finish"
    /\ UNCHANGED <<opts, idx, mod, po, ep_index, words, words0, ret, last, writes, calls>>

\* the end of write(): the bound, then the header and the sections appended
\* to the caller's vector
Finish ==
    /\ pc = "finish"
    /\ w' = write_physical_layout(w)
    /\ words' = words \o PhysicalLayout_in_words(w'.physical_layout)
                      \o LogicalLayout_in_words(w'.logical_layout)
    /\ ret' = NoError
    /\ pc' = "idle"
    /\ UNCHANGED <<opts, idx, mod, po, ep_index, words0, last, writes, calls>>

Next ==
    \/ New
    \/ TestWritePhysicalLayout
    \/ \E m \in 1..Len(Modules), p \in Pipelines, prefix \in Prefixes :
          Write(m, p, prefix)
    \/ Start
    \/ ScalarConstant
    \/ TypeDeclaration
    \/ CompositeConstant
    \/ GlobalVariable
    \/ WriteFunction
    \/ WriteEntryPoint
    \/ Flush
    \/ Finish

Spec == Init /\ [][Next]_vars


----------------------------------------------------------------------------
(* Properties                                                               *)

\* write() is running: from after its reset() to before its return
InWrite ==
    pc \in {"layout", "scalars", "types", "composites", "globals", "functions",
            "entry_points", "flush", "finish"}

\* write() has returned Ok and the writer still holds what it emitted
Written == pc = "idle" /\ writes > 0 /\ ret = NoError

\* the scalar pass, the type pass, the composite pass of the running or the
\* returned write() is over
AfterScalars ==
    Written \/ pc \in {"types", "composites", "globals", "functions",
                       "entry_points", "flush", "finish"}

AfterTypes ==
    Written \/ pc \in {"composites", "globals", "functions", "entry_points",
                       "flush", "finish"}

AfterConstants ==
    Written \/ pc \in {"globals", "functions", "entry_points", "flush", "finish"}

\* the words write() appends for the two layouts
WordsOf(physical_layout, logical_layout) ==
    PhysicalLayout_in_words(physical_layout)
      \o LogicalLayout_in_words(logical_layout)

\* every instruction in the sections of the writer
Emitted(wr) ==
    wr.logical_layout.capabilities \o wr.logical_layout.extensions
      \o wr.logical_layout.ext_inst_imports \o wr.logical_layout.memory_model
      \o wr.logical_layout.entry_points \o wr.logical_layout.execution_modes
      \o wr.logical_layout.debugs \o wr.logical_layout.annotations
      \o wr.logical_layout.declarations
      \o wr.logical_layout.function_definitions

\* the positions of a sequence of instructions that declare a result id
Declaring(ins) == { i \in 1..Len(ins) : ins[i].id # 0 }

\* the ids the instructions declare
DeclaredIds(ins) == { ins[i].id : i \in Declaring(ins) }

\* the ids the instructions declare or refer to
UsedIds(ins) ==
    UNION { ({ins[i].id, ins[i].ty}
               \cup { ins[i].refs[k] : k \in 1..Len(ins[i].refs) }) \ {0} :
            i \in 1..Len(ins) }

\* how many of the instructions declare the id
Declarations(ins, id) == Cardinality({ i \in 1..Len(ins) : ins[i].id = id })

C1_SameWordsUpToCapabilityOrder ==
    (Written /\ last.some /\ last.mod = mod /\ last.po = po)
        => /\ w.physical_layout = last.physical_layout
           /\ [w.logical_layout EXCEPT !.capabilities = <<>>]
                = [last.logical_layout EXCEPT !.capabilities = <<>>]
           /\ Len(w.logical_layout.capabilities)
                = Len(last.logical_layout.capabilities)
           /\ { w.logical_layout.capabilities[i] :
                    i \in 1..Len(w.logical_layout.capabilities) }
                = { last.logical_layout.capabilities[i] :
                    i \in 1..Len(last.logical_layout.capabilities) }

(***************************************************************************)
(* C2: after reset() - at the start of write_logical_layout, or when       *)
(* write() returned EntryPointNotFound - the writer is the writer that     *)
(* Writer::new makes of the options: the configuration kept, the tables,   *)
(* the buffers and the layouts empty, capabilities_used = {Shader}, the    *)
(* import id 1 and the void type id 2 from a fresh generator.              *)
(***************************************************************************)
C2_ResetIsNew ==
    (pc = "layout" \/ (pc = "idle" /\ ret.kind = "EntryPointNotFound"))
        => /\ w = Writer_new(opts)
           /\ w.flags = opts.flags
           /\ w.bounds_check_policies = opts.bounds_check_policies
           /\ w.capabilities_available = opts.capabilities
           /\ w.physical_layout.version
                = RawVersion(opts.lang_version[1], opts.lang_version[2])
           /\ w.lookup_type = EmptyMap
           /\ w.lookup_function = EmptyMap
           /\ w.lookup_function_type = EmptyMap
           /\ w.cached_constants = EmptyMap
           /\ w.constant_ids = <<>>
           /\ w.global_variables = <<>>
           /\ w.debugs = <<>>
           /\ w.annotations = <<>>
           /\ Emitted(w) = <<>>
           /\ w.capabilities_used = {"Shader"}
           /\ w.gl450_ext_inst_id = 1
           /\ w.void_type = 2
           /\ w.id_gen = 2

\* reset() has run on a writer that had written a whole module
C2_ResetAfterWrite == pc = "layout" /\ writes > 1 /\ last.some

(***************************************************************************)
(* C3: in every step of a write() the id generator does not go back, the   *)
(* result ids the step adds are greater than every id handed out before   *)
(* the step and at most the last id handed out, and no two instructions    *)
(* of the module declare the same result id.                               *)
(***************************************************************************)
C3_Ids ==
    [][InWrite =>
         /\ w'.id_gen >= w.id_gen
         /\ \A id \in DeclaredIds(Emitted(w')) \ DeclaredIds(Emitted(w)) :
               w.id_gen < id \/ (pc = "layout" /\ id \in {1, 2})
         /\ \A id \in DeclaredIds(Emitted(w')) : id <= w'.id_gen
         /\ Cardinality(Declaring(Emitted(w')))
              = Cardinality(DeclaredIds(Emitted(w')))]_vars

\* every function and entry point of the shader module has been written:
\* types, constants, variables, labels, functions, parameters and loads
C3_ManyIds ==
    /\ pc = "finish" /\ mod = 3 /\ po = NoPipeline
    /\ Cardinality(DeclaredIds(Emitted(w))) > 30
    /\ \E i \in 1..Len(w.logical_layout.function_definitions) :
          w.logical_layout.function_definitions[i].op = "OpFunctionParameter"

(***************************************************************************)
(* C4: the step that ends a write() sets the bound to the last id handed   *)
(* out plus 1: the bound is in the header, it is greater than every id of  *)
(* the module, and the bound minus 1 is an id of the module.  The call of  *)
(* write_physical_layout on a new writer takes the bound from 0 to 3.      *)
(***************************************************************************)
C4_Bound ==
    [][/\ pc = "finish" =>
            /\ w'.physical_layout.bound = w.id_gen + 1
            /\ w'.id_gen = w.id_gen
            /\ \A id \in UsedIds(Emitted(w')) : id < w'.physical_layout.bound
            /\ (w'.physical_layout.bound - 1) \in UsedIds(Emitted(w'))
            /\ words'[Len(words0) + 4] = Word(w'.physical_layout.bound)
       /\ (pc = "idle" /\ pc' = "idle" /\ writes = 0 /\ writes' = 0) =>
            /\ w = Writer_new(opts)
            /\ w.physical_layout.bound = 0
            /\ w'.physical_layout.bound = 3]_vars

\* a write() of the whole shader module has returned
C4_BoundWritten ==
    Written /\ mod = 3 /\ po = NoPipeline /\ w.physical_layout.bound > 30

\* the section an instruction belongs to, by its opcode: 1 capabilities,
\* 2 extensions, 3 imports, 4 memory model, 5 entry points, 6 execution
\* modes, 7 debug, 8 annotations, 9 declarations, 10 function definitions
SectionOf(ins) ==
    CASE ins.op = "OpCapability" -> 1
      [] ins.op = "OpExtension" -> 2
      [] ins.op = "OpExtInstImport" -> 3
      [] ins.op = "OpMemoryModel" -> 4
      [] ins.op = "OpEntryPoint" -> 5
      [] ins.op = "OpExecutionMode" -> 6
      [] ins.op \in {"OpSource", "OpName", "OpMemberName"} -> 7
      [] ins.op \in {"OpDecorate", "OpMemberDecorate"} -> 8
      [] ins.op = "OpVariable" -> IF ins.tag = "Function" THEN 10 ELSE 9
      [] ins.op \in {"OpFunction", "OpFunctionParameter", "OpLabel", "OpLoad",
                     "OpStore", "OpCompositeConstruct", "OpBranch", "OpReturn",
                     "OpExpression", "OpFunctionEnd"} -> 10
      [] OTHER -> 9

(***************************************************************************)
(* C5: when write() has returned Ok the caller's vector is what it was,    *)
(* then the 5 words of the header, then the sections capabilities,         *)
(* extensions, imports, memory model, entry points, execution modes,       *)
(* debug, annotations, declarations, function definitions; along the       *)
(* output the section an instruction belongs to never goes back.           *)
(***************************************************************************)
C5_SectionOrder ==
    Written =>
      /\ Len(words) >= Len(words0) + 5
      /\ SubSeq(words, 1, Len(words0)) = words0
      /\ words[Len(words0) + 1] = Word(119734787)
      /\ words[Len(words0) + 2]
            = Word(RawVersion(opts.lang_version[1], opts.lang_version[2]))
      /\ words[Len(words0) + 3].op = "Word"
      /\ words[Len(words0) + 4] = Word(w.physical_layout.bound)
      /\ words[Len(words0) + 5] = Word(0)
      /\ SubSeq(words, Len(words0) + 6, Len(words))
            = w.logical_layout.capabilities \o w.logical_layout.extensions
                \o w.logical_layout.ext_inst_imports
                \o w.logical_layout.memory_model
                \o w.logical_layout.entry_points
                \o w.logical_layout.execution_modes
                \o w.logical_layout.debugs \o w.logical_layout.annotations
                \o w.logical_layout.declarations
                \o w.logical_layout.function_definitions
      /\ \A i \in (Len(words0) + 6)..(Len(words) - 1) :
            /\ words[i].op # "Word"
            /\ SectionOf(words[i]) <= SectionOf(words[i + 1])

\* an output after a non-empty vector, with entry points, execution modes,
\* debug instructions and annotations
C5_AllSections ==
    /\ Written /\ words0 # <<>>
    /\ w.logical_layout.extensions # <<>>
    /\ w.logical_layout.entry_points # <<>>
    /\ w.logical_layout.execution_modes # <<>>
    /\ w.logical_layout.debugs # <<>>
    /\ w.logical_layout.annotations # <<>>
    /\ w.logical_layout.function_definitions # <<>>

\* LocalType keys that the modules of the model do and do not intern
ProbeKeys ==
    { Local(Value(0, "Float", 4, "")), Local(Value(2, "Float", 4, "")),
      Local(Value(0, "Sint", 4, "")), Local(Value(3, "Uint", 4, "")),
      Local(Matrix(2, 2, 4)), Local(Sampler) }

(***************************************************************************)
(* C6: in every step of a write() the entries of lookup_type stay what     *)
(* they are; get_type_id of an interned key returns its id, emits nothing  *)
(* and allocates no id; each interned LocalType has one declaration;       *)
(* get_type_id of a LocalType that is not interned allocates the next id,  *)
(* declares it, and returns that id again when it is called again.         *)
(***************************************************************************)
C6_Interned ==
    [][(InWrite /\ ~Failed(w')) =>
         /\ \A k \in DOMAIN w.lookup_type :
               /\ k \in DOMAIN w'.lookup_type
               /\ w'.lookup_type[k] = w.lookup_type[k]
         /\ \A k \in DOMAIN w'.lookup_type :
               /\ get_type_id(w', k) = [w |-> w', id |-> w'.lookup_type[k]]
               /\ k.k = "Local" =>
                     Declarations(w'.logical_layout.declarations,
                                  w'.lookup_type[k]) = 1
         /\ \A k \in ProbeKeys \ DOMAIN w'.lookup_type :
               /\ get_type_id(w', k).id = w'.id_gen + 1
               /\ get_type_id(w', k).w.lookup_type[k] = w'.id_gen + 1
               /\ Declarations(get_type_id(w', k).w.logical_layout.declarations,
                               w'.id_gen + 1) = 1
               /\ get_type_id(get_type_id(w', k).w, k)
                    = [w |-> get_type_id(w', k).w, id |-> w'.id_gen + 1]]_vars

\* the shader module is written: f32 has been asked for by the type pass, by
\* the vector, by the image, by the function and by the entry points
C6_AskedAgain ==
    /\ pc = "finish" /\ mod = 3
    /\ Local(Value(0, "Float", 4, "")) \in DOMAIN w.lookup_type
    /\ Local(Value(2, "Float", 4, "")) \in DOMAIN w.lookup_type

(***************************************************************************)
(* C7: once the scalar pass is over, two unnamed scalar constants with the *)
(* same value and width have the same id; a named scalar constant has an   *)
(* id that no other constant has, that no entry of cached_constants holds  *)
(* and that get_constant_scalar does not return for its value; each scalar *)
(* constant's id is declared by one instruction.                           *)
(***************************************************************************)
C7_ScalarConstants ==
    (AfterScalars /\ ~Failed(w)) =>
      \A i \in 1..Len(Modules[mod].constants) :
        Modules[mod].constants[i].inner.ci = "Scalar" =>
          /\ w.constant_ids[i] # 0
          /\ Declarations(w.logical_layout.declarations, w.constant_ids[i]) = 1
          /\ \A j \in 1..Len(Modules[mod].constants) :
                (/\ j # i
                 /\ Modules[mod].constants[i].name = ""
                 /\ Modules[mod].constants[j].name = ""
                 /\ Modules[mod].constants[i].inner
                      = Modules[mod].constants[j].inner)
                   => w.constant_ids[i] = w.constant_ids[j]
          /\ Modules[mod].constants[i].name # "" =>
                /\ \A j \in 1..Len(Modules[mod].constants) :
                      j # i => w.constant_ids[j] # w.constant_ids[i]
                /\ \A key \in DOMAIN w.cached_constants :
                      w.cached_constants[key] # w.constant_ids[i]
                /\ get_constant_scalar(w, Modules[mod].constants[i].inner.value,
                                       Modules[mod].constants[i].inner.width).id
                     # w.constant_ids[i]

\* the constants module after its scalar pass: two unnamed constants Uint 2
\* and the constant "two" of the same value
C7_EqualScalars ==
    /\ pc = "types" /\ mod = 2
    /\ w.constant_ids[1] = w.constant_ids[2]
    /\ w.constant_ids[3] # 0

(***************************************************************************)
(* C8: once the type pass is over, lookup_type has an entry for the handle *)
(* of every type of the module; the entry of a type with a LocalType       *)
(* projection is the entry of the projection; get_type_id of the handle    *)
(* returns it and does not abort.  No call has aborted on a handle.        *)
(***************************************************************************)
C8_HandlesPopulated ==
    /\ ret.what # "Handles are populated at start"
    /\ (AfterTypes /\ ~Failed(w)) =>
         \A h \in 1..Len(Modules[mod].types) :
            /\ Handle(h) \in DOMAIN w.lookup_type
            /\ get_type_id(w, Handle(h))
                 = [w |-> w, id |-> w.lookup_type[Handle(h)]]
            /\ make_local(Modules[mod].types[h].inner) # NoLocal =>
                  /\ Local(make_local(Modules[mod].types[h].inner))
                        \in DOMAIN w.lookup_type
                  /\ w.lookup_type[Handle(h)]
                       = w.lookup_type[Local(make_local(Modules[mod].types[h].inner))]

\* the constants module after its type pass: f32 and its named alias Real
\* are two handles of one id
C8_Aliases ==
    /\ pc = "composites" /\ mod = 2
    /\ Handle(1) \in DOMAIN w.lookup_type
    /\ Handle(2) \in DOMAIN w.lookup_type
    /\ w.lookup_type[Handle(1)] = w.lookup_type[Handle(2)]

(***************************************************************************)
(* C9: once the two constant passes are over, constant_ids has one entry   *)
(* for each constant of the module and no entry is 0; no OpConstantComposite *)
(* of the module has a constituent 0 (the composites of the modules of the *)
(* model refer to scalars and to earlier composites).                      *)
(***************************************************************************)
C9_ConstantIds ==
    /\ (AfterConstants /\ ~Failed(w)) =>
          /\ Len(w.constant_ids) = Len(Modules[mod].constants)
          /\ \A i \in 1..Len(w.constant_ids) : w.constant_ids[i] # 0
    /\ (InWrite \/ Written) =>
          \A i \in 1..Len(w.logical_layout.declarations) :
             w.logical_layout.declarations[i].op = "OpConstantComposite" =>
                \A k \in 1..Len(w.logical_layout.declarations[i].refs) :
                   w.logical_layout.declarations[i].refs[k] # 0

\* the constants module after its composite pass: a composite of scalars and
\* a composite of composites
C9_Composites ==
    /\ pc = "globals" /\ mod = 2
    /\ Cardinality({ i \in 1..Len(w.logical_layout.declarations) :
                       w.logical_layout.declarations[i].op = "OpConstantComposite" })
         = 2

\* the instructions of the caller's vector
OpCapabilities == { i \in 1..Len(words) : words[i].op = "OpCapability" }

\* the capabilities an emitted instruction needs one of; {} when none
Needs(ins) ==
    CASE ins.op = "OpTypeInt" /\ ins.lits[1] = 8 -> {"Int8"}
      [] ins.op = "OpTypeInt" /\ ins.lits[1] = 16 -> {"Int16"}
      [] ins.op = "OpTypeInt" /\ ins.lits[1] = 64 -> {"Int64"}
      [] ins.op = "OpTypeFloat" /\ ins.lits[1] = 64 -> {"Float64"}
      [] ins.op = "OpTypeImage" /\ ins.tag = "D1" -> {"Sampled1D", "Image1D"}
      [] ins.op = "OpDecorate" /\ ins.tag = "Sample" -> {"SampleRateShading"}
      [] ins.op = "OpDecorate" /\ ins.tag = "BuiltIn" /\ ins.name = "SampleId" ->
            {"SampleRateShading"}
      [] ins.op = "OpDecorate" /\ ins.tag = "BuiltIn" /\ ins.name = "ViewIndex" ->
            {"MultiView"}
      [] ins.op = "OpDecorate" /\ ins.tag = "BuiltIn" /\ ins.name = "PrimitiveId" ->
            {"Geometry"}
      [] OTHER -> {}

(***************************************************************************)
(* C10: when write() has returned Ok the OpCapability instructions of the  *)
(* output are, each once, the capabilities of capabilities_used, and       *)
(* Linkage exactly when the module has no entry point; Shader is one of    *)
(* them; a scalar type, an image type or a varying decoration of the       *)
(* output that needs a capability has it among them.                       *)
(***************************************************************************)
C10_Capabilities ==
    Written =>
      /\ { words[i].tag : i \in OpCapabilities }
           = w.capabilities_used
               \cup (IF Modules[mod].entry_points = <<>> THEN {"Linkage"} ELSE {})
      /\ Cardinality(OpCapabilities)
           = Cardinality({ words[i].tag : i \in OpCapabilities })
      /\ "Shader" \in { words[i].tag : i \in OpCapabilities }
      /\ ("Linkage" \in w.capabilities_used) = FALSE
      /\ \A i \in 1..Len(words) :
            Needs(words[i]) # {} =>
               Needs(words[i]) \cap { words[j].tag : j \in OpCapabilities } # {}

\* the shader module is written whole: the sample index of the fragment
\* entry point asked for SampleRateShading in the last pass
C10_LateCapability ==
    /\ Written /\ mod = 3 /\ po = NoPipeline
    /\ "SampleRateShading" \in w.capabilities_used
    /\ "Sampled1D" \in w.capabilities_used

\* the global loop of the running or the returned write() is over
AfterGlobals ==
    Written \/ pc \in {"functions", "entry_points", "flush", "finish"}

\* the global is written: no entry point is selected, or the selected one
\* uses it
GlobalWritten(i) ==
    ep_index = NoIndex
    \/ Modules[mod].info.entry_points[ep_index].global_uses[i] # {}

\* the OpVariable declarations of the module's globals (the varyings are the
\* variables of class Input and Output)
GlobalDeclarations(wr) ==
    { k \in 1..Len(wr.logical_layout.declarations) :
        /\ wr.logical_layout.declarations[k].op = "OpVariable"
        /\ wr.logical_layout.declarations[k].tag \notin {"Input", "Output"} }

(***************************************************************************)
(* C11: after the global loop global_variables has one record per IR       *)
(* global, in order.  The record of a global that is written (no entry      *)
(* point selected, or a non-empty use set of the selected one) carries the  *)
(* id of exactly one OpVariable of the global's storage class, with its     *)
(* DescriptorSet decoration if the global has a binding; the record of any  *)
(* other global is the dummy (id 0), and no other OpVariable and no other   *)
(* DescriptorSet decoration is emitted.                                     *)
(***************************************************************************)
C11_Globals ==
    AfterGlobals =>
      LET globals == Modules[mod].global_variables
          decls == w.logical_layout.declarations
          sets == { k \in 1..Len(w.annotations) :
                      w.annotations[k].tag = "DescriptorSet" }
      IN  /\ Len(w.global_variables) = Len(globals)
          /\ \A i \in 1..Len(globals) :
                IF GlobalWritten(i)
                THEN /\ w.global_variables[i].id # 0
                     /\ Cardinality({ k \in GlobalDeclarations(w) :
                            decls[k].id = w.global_variables[i].id }) = 1
                     /\ \A k \in GlobalDeclarations(w) :
                            decls[k].id = w.global_variables[i].id
                              => decls[k].tag = map_storage_class(globals[i].class)
                     /\ globals[i].binding.some =>
                           \E k \in sets :
                              /\ w.annotations[k].refs = <<w.global_variables[i].id>>
                              /\ w.annotations[k].lits = <<globals[i].binding.group>>
                ELSE w.global_variables[i].id = 0
          /\ \A i, j \in 1..Len(globals) :
                (i # j /\ GlobalWritten(i) /\ GlobalWritten(j))
                   => w.global_variables[i].id # w.global_variables[j].id
          /\ Cardinality(GlobalDeclarations(w))
               = Cardinality({ i \in 1..Len(globals) : GlobalWritten(i) })
          /\ Cardinality(sets)
               = Cardinality({ i \in 1..Len(globals) :
                                 GlobalWritten(i) /\ globals[i].binding.some })

\* an entry point is selected that uses some globals of the module and not
\* the others
C11_SomeDummies ==
    /\ AfterGlobals /\ ep_index # NoIndex
    /\ \E i, j \in 1..Len(w.global_variables) :
          w.global_variables[i].id = 0 /\ w.global_variables[j].id # 0

\* the positions of the instructions with the opcode in the function section
FunctionOps(wr, op) ==
    { k \in 1..Len(wr.logical_layout.function_definitions) :
        wr.logical_layout.function_definitions[k].op = op }

\* the least element of a non-empty set of positions
Least(S) == CHOOSE k \in S : \A j \in S : k <= j

(***************************************************************************)
(* C12: in every function of the function section the first block is the   *)
(* prelude: between OpFunction and the first OpLabel there are only the     *)
(* parameters; the block has exactly one OpBranch, its last instruction,    *)
(* whose target is the label that follows it; every id the prelude         *)
(* declares or refers to is smaller than that label (the label was         *)
(* allocated after them); and that label is the label of exactly one block *)
(* of the module.                                                           *)
(***************************************************************************)
C12_Prelude ==
    w # NoWriter =>
    LET fd == w.logical_layout.function_definitions
        labels == FunctionOps(w, "OpLabel")
    IN  \A f \in FunctionOps(w, "OpFunction") :
          LET end == Least({ e \in FunctionOps(w, "OpFunctionEnd") : e > f })
              prelude == Least({ l \in labels : l > f })
              main == Least({ l \in labels : l > prelude })
          IN  /\ prelude < main /\ main < end
              /\ \A k \in (f + 1)..(prelude - 1) : fd[k].op = "OpFunctionParameter"
              /\ { k \in prelude..main : fd[k].op = "OpBranch" } = {main - 1}
              /\ fd[main - 1].refs = <<fd[main].id>>
              /\ \A k \in (prelude + 1)..(main - 2) :
                    /\ fd[k].id < fd[main].id
                    /\ \A r \in 1..Len(fd[k].refs) : fd[k].refs[r] < fd[main].id
              /\ fd[prelude].id < fd[main].id
              /\ Cardinality({ l \in labels : fd[l].id = fd[main].id }) = 1

\* a function is written whose prelude loads an argument, stores the forced
\* point size and ends with a pre-emitted expression before its branch
C12_FullPrelude ==
    /\ Written
    /\ \E b \in FunctionOps(w, "OpBranch") :
       /\ b > 3
       /\ w.logical_layout.function_definitions[b - 1].op = "OpExpression"
       /\ w.logical_layout.function_definitions[b - 2].op = "OpStore"
       /\ w.logical_layout.function_definitions[b - 3].op = "OpLoad"

----------------------------------------------------------------------------
(* require_any on its own: a writer made by Writer::new, then any calls     *)

\* the longest list of capabilities a call passes
MaxRequired == 2

Capabilities ==
    {"Shader", "Float64", "Int64", "Int8", "Geometry", "MultiView"}

\* the lists of capabilities a call passes
CapabilityLists == UNION { [1..n -> Capabilities] : n \in 0..MaxRequired }

Whats == {"a feature", "another feature"}

InitRequireAny ==
    /\ opts \in { o \in OptionsPool : o.lang_version[1] = 1 }
    /\ w = Writer_new(opts)
    /\ pc = "require"
    /\ idx = 0
    /\ mod = 0
    /\ po = NoPipeline
    /\ ep_index = NoIndex
    /\ words = <<>>
    /\ words0 = <<>>
    /\ ret = NoError
    /\ last = NoLast
    /\ writes = 0
    /\ calls = <<>>

\* self.require_any(what, &capabilities): the writer after the call and what
\* the call returned
RequireAny(what, capabilities) ==
    /\ pc = "require"
    /\ w' = require_any([w EXCEPT !.err = NoError], what, capabilities)
    /\ ret' = w'.err
    /\ UNCHANGED <<opts, pc, idx, mod, po, ep_index, words, words0, last, writes, calls>>

NextRequireAny ==
    \E what \in Whats, capabilities \in CapabilityLists :
        RequireAny(what, capabilities)

SpecRequireAny == InitRequireAny /\ [][NextRequireAny]_vars

(***************************************************************************)
(* C13: whatever the writer has used so far, require_any(what, list)       *)
(* changes nothing for the empty list; adds the first element when the     *)
(* available capabilities are None; adds the first element in list order   *)
(* that is in the available set S when they are Some(S); and when no       *)
(* element is in S returns MissingCapabilities(what, list) with the writer *)
(* as it was.  At most one capability is added and no other field of the   *)
(* writer changes.                                                          *)
(***************************************************************************)
C13_RequireAny ==
    pc = "require" =>
      \A what \in Whats, list \in CapabilityLists :
        LET before == [w EXCEPT !.err = NoError]
            after == require_any(before, what, list)
            available == before.capabilities_available
            found == { i \in 1..Len(list) : list[i] \in available.set }
        IN  /\ list = <<>> => after = before
            /\ (list # <<>> /\ ~available.some)
                 => after = [before EXCEPT !.capabilities_used = @ \cup {list[1]}]
            /\ (list # <<>> /\ available.some /\ found # {})
                 => after = [before EXCEPT !.capabilities_used =
                                @ \cup {list[Least(found)]}]
            /\ (list # <<>> /\ available.some /\ found = {})
                 => after = [before EXCEPT
                               !.err = Error("MissingCapabilities", what, list)]
            /\ Cardinality(after.capabilities_used \ before.capabilities_used) <= 1
            /\ [after EXCEPT !.capabilities_used = {}, !.err = NoError]
                 = [before EXCEPT !.capabilities_used = {}]

\* with a restricted set of available capabilities a call has added a
\* capability that was not the first of its list, and a later call with two
\* capabilities has been refused
C13_SecondChoiceAndRefusal ==
    /\ pc = "require"
    /\ opts.capabilities.some
    /\ "Float64" \in w.capabilities_used
    /\ ret.kind = "MissingCapabilities" /\ Len(ret.caps) = 2

\* the capability the width of a declared scalar type implies, "" for none
WidthCapability(ins) ==
    CASE ins.op = "OpTypeFloat" /\ ins.lits = <<64>> -> "Float64"
      [] ins.op = "OpTypeInt" /\ ins.lits = <<8>> -> "Int8"
      [] ins.op = "OpTypeInt" /\ ins.lits = <<16>> -> "Int16"
      [] ins.op = "OpTypeInt" /\ ins.lits = <<64>> -> "Int64"
      [] OTHER -> ""

\* the module has a 64-bit float constant
UsesF64(ir_module) ==
    \E c \in 1..Len(ir_module.constants) :
       /\ ir_module.constants[c].inner.ci = "Scalar"
       /\ ir_module.constants[c].inner.value.kind = "Float"
       /\ ir_module.constants[c].inner.width = 8

(***************************************************************************)
(* C14: with the available capabilities restricted to a set, no scalar     *)
(* type is declared whose width implies a capability outside the set; and  *)
(* with the set {Shader} a write() of a module with an f64 constant        *)
(* returns MissingCapabilities naming Float64 and leaves the caller's      *)
(* vector as it was.                                                       *)
(***************************************************************************)
C14_WidthRefused ==
    /\ (w # NoWriter /\ w.capabilities_available.some) =>
          \A k \in 1..Len(w.logical_layout.declarations) :
             WidthCapability(w.logical_layout.declarations[k])
                \in w.capabilities_available.set \cup {""}
    /\ (pc = "idle" /\ writes > 0 /\ opts.capabilities = SomeCaps({"Shader"})
        /\ ~po.some /\ UsesF64(Modules[mod])) =>
          /\ ret.kind = "MissingCapabilities"
          /\ \E i \in 1..Len(ret.caps) : ret.caps[i] = "Float64"
          /\ words = words0

(***************************************************************************)
(* C15: while write() runs, and after it returned an error, the caller's   *)
(* vector is what it was when write() was called; after it returned Ok the *)
(* vector is that, followed by the header and the sections.                *)
(***************************************************************************)
C15_NoPartialOutput ==
    /\ (InWrite \/ (pc = "idle" /\ writes > 0 /\ ret # NoError)) => words = words0
    /\ (pc = "idle" /\ writes > 0 /\ ret # NoError) =>
          ret.kind \in {"EntryPointNotFound", "MissingCapabilities", "Translator"}
    /\ Written =>
          words = words0 \o WordsOf(w.physical_layout, w.logical_layout)

\* write() was called with a vector that held a word and returned the error
\* of the expression translator after types and a function were generated
C15_LateError ==
    /\ pc = "idle" /\ ret.kind = "Translator"
    /\ words0 # <<>>
    /\ w.logical_layout.declarations # <<>>

----------------------------------------------------------------------------
(* C16: EntryPointNotFound                                                  *)

\* write() has returned, with Ok or with an error
Returned == pc = "idle" /\ writes > 0

\* an entry point of the module has both the stage and the name asked for
Matches(ir_module, pipeline_options) ==
    \E i \in 1..Len(ir_module.entry_points) :
       /\ ir_module.entry_points[i].stage = pipeline_options.shader_stage
       /\ ir_module.entry_points[i].name = pipeline_options.entry_point

\* C16: a write() with pipeline options returns EntryPointNotFound exactly
\* when no entry point of the module has both the stage and the name asked
\* for; a write() that is past the search, or that returned anything else,
\* had a match or no pipeline options.  The error comes after reset() and
\* before anything is emitted: the writer is then as new (capabilities_used
\* is {Shader}, the id counter is at the two seeded ids, no instruction is
\* held) and the caller's words are untouched.
C16_EntryPointNotFound ==
    /\ Returned =>
          (ret.kind = "EntryPointNotFound"
             <=> (po.some /\ ~Matches(Modules[mod], po)))
    /\ InWrite => (po.some => Matches(Modules[mod], po))
    /\ (Returned /\ ret.kind = "EntryPointNotFound") =>
          /\ w.capabilities_used = {"Shader"}
          /\ w.id_gen = 2
          /\ Emitted(w) = <<>>
          /\ words = words0

\* the second write() of a writer is refused although the name asked for is
\* the name of an entry point of another stage, after a first write() that
\* allocated ids and used more capabilities
C16_NameOfAnotherStage ==
    /\ Returned
    /\ ret.kind = "EntryPointNotFound"
    /\ \E i \in 1..Len(Modules[mod].entry_points) :
          /\ Modules[mod].entry_points[i].name = po.entry_point
          /\ Modules[mod].entry_points[i].stage # po.shader_stage
    /\ \E i \in 1..Len(Modules[mod].entry_points) :
          /\ Modules[mod].entry_points[i].name # po.entry_point
          /\ Modules[mod].entry_points[i].stage = po.shader_stage
    /\ last.some
    /\ last.physical_layout.bound > 3
    /\ Len(last.logical_layout.capabilities) > 1

----------------------------------------------------------------------------
(* C17: the selected entry point                                            *)

\* the function pass of the running or the returned write() is over
AfterFunctions == Written \/ pc \in {"entry_points", "flush", "finish"}

\* how many entry points the entry point loop has been through
EntryPointsDone ==
    IF pc = "entry_points" THEN idx - 1 ELSE Len(Modules[mod].entry_points)

\* the entry points the loop has been through and did not pass over, in the
\* order of the IR
EmittedEntryPoints ==
    SelectSeq([i \in 1..EntryPointsDone |-> i],
              LAMBDA i : ep_index = NoIndex \/ i = ep_index)

\* the functions of the arena the function pass did not skip
WrittenFunctions ==
    { h \in 1..Len(Modules[mod].functions) :
         ~SkipFunction(Modules[mod].info, ep_index, h) }

\* the OpFunction instructions of the function section, in order
OpFunctions(wr) ==
    SelectSeq(wr.logical_layout.function_definitions,
              LAMBDA ins : ins.op = "OpFunction")

\* C17: with pipeline options the entry point written is the first one of the
\* IR that has the stage and the name asked for: the entry point section
\* holds one OpEntryPoint, for it, once the loop is past it and none before,
\* and the function section holds, after the functions of the arena, the body
\* of that entry point only.  Without pipeline options the section holds one
\* OpEntryPoint per entry point of the IR, in the order of the IR, each
\* naming its own function body.
C17_SelectedEntryPoint ==
    AfterFunctions =>
       /\ po.some =>
             /\ ep_index = Least({ i \in 1..Len(Modules[mod].entry_points) :
                   /\ Modules[mod].entry_points[i].stage = po.shader_stage
                   /\ Modules[mod].entry_points[i].name = po.entry_point })
             /\ Len(w.logical_layout.entry_points)
                   = (IF EntryPointsDone >= ep_index THEN 1 ELSE 0)
       /\ (~po.some /\ (Written \/ pc \in {"flush", "finish"})) =>
             Len(w.logical_layout.entry_points) = Len(Modules[mod].entry_points)
       /\ Len(w.logical_layout.entry_points) = Len(EmittedEntryPoints)
       /\ Len(OpFunctions(w))
             = Cardinality(WrittenFunctions) + Len(EmittedEntryPoints)
       /\ \A k \in 1..Len(EmittedEntryPoints) :
             /\ w.logical_layout.entry_points[k].op = "OpEntryPoint"
             /\ w.logical_layout.entry_points[k].name
                   = Modules[mod].entry_points[EmittedEntryPoints[k]].name
             /\ w.logical_layout.entry_points[k].tag
                   = ExecutionModel(
                        Modules[mod].entry_points[EmittedEntryPoints[k]].stage)
             /\ w.logical_layout.entry_points[k].refs[1]
                   = OpFunctions(w)[Cardinality(WrittenFunctions) + k].id

\* a write() of all five entry points of a module, then a write() of the same
\* writer that selects the first of its two vertex entry points named alike
C17_FirstOfTwo ==
    /\ Written
    /\ po.some
    /\ Cardinality({ i \in 1..Len(Modules[mod].entry_points) :
          /\ Modules[mod].entry_points[i].stage = po.shader_stage
          /\ Modules[mod].entry_points[i].name = po.entry_point }) > 1
    /\ Len(w.logical_layout.entry_points) = 1
    /\ last.some
    /\ ~last.po.some
    /\ Len(last.logical_layout.entry_points) = 5

----------------------------------------------------------------------------
(* C18: Writer::new                                                         *)

\* Writer::new has returned and nothing has been called on the writer yet
JustConstructed == pc = "idle" /\ writes = 0 /\ w.physical_layout.bound = 0

\* C18: Writer::new returns UnsupportedVersion(major, minor), and no writer,
\* exactly when the major component of lang_version is not 1.  With major 1
\* it returns a writer, whatever the minor: the header version of that writer
\* is (major << 16) | (minor << 8), now and in every later header; two ids
\* have been taken from the id generator (the GLSL.std.450 import and the
\* void type), and capabilities_used is exactly {Shader}.
C18_WriterNew ==
    /\ pc # "new" =>
          /\ pc = "unsupported" <=> opts.lang_version[1] # 1
          /\ w = NoWriter <=> opts.lang_version[1] # 1
    /\ pc = "unsupported" =>
          ret = Error("UnsupportedVersion", "", opts.lang_version)
    /\ w # NoWriter =>
          /\ w.physical_layout.version
                = opts.lang_version[1] * (2 ^ 16) + opts.lang_version[2] * (2 ^ 8)
    /\ Written =>
          words[Len(words0) + 2]
             = Word(opts.lang_version[1] * (2 ^ 16) + opts.lang_version[2] * (2 ^ 8))
    /\ (pc = "idle" /\ writes = 0) =>
          /\ ret = NoError
          /\ w.id_gen = 2
          /\ {w.gl450_ext_inst_id, w.void_type} = {1, 2}
          /\ w.capabilities_used = {"Shader"}
          /\ Emitted(w) = <<>>

\* a writer constructed for version 1.3
C18_Version13 ==
    /\ JustConstructed
    /\ opts.lang_version = <<1, 3>>
    /\ w.physical_layout.version = 66304

----------------------------------------------------------------------------
(* C19: FORCE_POINT_SIZE                                                    *)

\* the interface list of the k-th OpEntryPoint: its operands after the
\* function id
InterfaceOf(wr, k) == Tail(wr.logical_layout.entry_points[k].refs)

\* the ids of the interface list of the k-th OpEntryPoint that are decorated
\* BuiltIn PointSize
PointSizeIds(wr, k) ==
    { g \in { InterfaceOf(wr, k)[j] : j \in 1..Len(InterfaceOf(wr, k)) } :
        \E a \in 1..Len(wr.logical_layout.annotations) :
           wr.logical_layout.annotations[a]
              = Instruction("OpDecorate", 0, 0, <<g>>, "BuiltIn", <<>>, "PointSize") }

\* the outputs of the IR entry point include the PointSize built-in
HasPointSizeOutput(ir_module, entry_point) ==
    /\ entry_point.function.result.some
    /\ contains_builtin(entry_point.function.result.binding,
                        entry_point.function.result.ty, ir_module.types,
                        "PointSize")

\* g is an Output variable, and the prelude of the function function_id, the
\* block before its OpBranch, stores the 4-byte float constant 1.0 into it
StoresOneInPrelude(wr, function_id, g) ==
    /\ \E d \in 1..Len(wr.logical_layout.declarations) :
          /\ wr.logical_layout.declarations[d].op = "OpVariable"
          /\ wr.logical_layout.declarations[d].id = g
          /\ wr.logical_layout.declarations[d].tag = "Output"
    /\ <<[kind |-> "Float", v |-> 1], 4>> \in DOMAIN wr.cached_constants
    /\ \E f \in FunctionOps(wr, "OpFunction"), s \in FunctionOps(wr, "OpStore") :
          /\ wr.logical_layout.function_definitions[f].id = function_id
          /\ f < s
          /\ wr.logical_layout.function_definitions[s].refs
                = <<g, wr.cached_constants[<<[kind |-> "Float", v |-> 1], 4>>]>>
          /\ \A b \in FunctionOps(wr, "OpBranch") \cup FunctionOps(wr, "OpFunctionEnd") :
                ~(f < b /\ b < s)

\* what the specification asks of the k-th OpEntryPoint, written for entry_point
PointSizeAsClaimed(wr, ir_module, k, entry_point) ==
    IF "FORCE_POINT_SIZE" \in wr.flags /\ entry_point.stage = "Vertex"
       /\ ~HasPointSizeOutput(ir_module, entry_point)
    THEN /\ Cardinality(PointSizeIds(wr, k)) = 1
         /\ \A g \in PointSizeIds(wr, k) :
               StoresOneInPrelude(wr, wr.logical_layout.entry_points[k].refs[1], g)
    ELSE /\ Cardinality(PointSizeIds(wr, k))
               = (IF HasPointSizeOutput(ir_module, entry_point) THEN 1 ELSE 0)
         /\ \A g \in PointSizeIds(wr, k) :
               ~StoresOneInPrelude(wr, wr.logical_layout.entry_points[k].refs[1], g)

\* C19: every entry point written with FORCE_POINT_SIZE set, of stage Vertex,
\* whose outputs include no PointSize built-in (its result is a bound value,
\* a struct of bound members, or absent) has in its interface list exactly
\* one more Output variable, decorated BuiltIn PointSize, into which its
\* prelude stores the 4-byte float constant 1.0; every other entry point has
\* no such variable.
C19_ForcedPointSize ==
    Written =>
       \A k \in 1..Len(EmittedEntryPoints) :
          PointSizeAsClaimed(w, Modules[mod], k,
                             Modules[mod].entry_points[EmittedEntryPoints[k]])

\* C19, for the entry points that have a result: the same statement, which
\* the writer meets.
C19_ForcedPointSizeOfResults ==
    Written =>
       \A k \in 1..Len(EmittedEntryPoints) :
          Modules[mod].entry_points[EmittedEntryPoints[k]].function.result.some
             => PointSizeAsClaimed(w, Modules[mod], k,
                                   Modules[mod].entry_points[EmittedEntryPoints[k]])

\* a vertex entry point with a Position result is written with the flag set:
\* the point size is synthesized
C19_Synthesized ==
    /\ Written
    /\ "FORCE_POINT_SIZE" \in w.flags
    /\ \E k \in 1..Len(EmittedEntryPoints) :
          /\ Modules[mod].entry_points[EmittedEntryPoints[k]].function.result.some
          /\ Modules[mod].entry_points[EmittedEntryPoints[k]].stage = "Vertex"
          /\ Cardinality(PointSizeIds(w, k)) = 1
          /\ ~HasPointSizeOutput(Modules[mod],
                                 Modules[mod].entry_points[EmittedEntryPoints[k]])

----------------------------------------------------------------------------
(* C20: execution modes and execution model                                 *)

OpExecutionMode(function_id, mode, lits) ==
    Instruction("OpExecutionMode", 0, 0, <<function_id>>, mode, lits, "")

\* the result of the function is bound to FragDepth, or is a struct one of
\* whose members is
CarriesFragDepth(ir_module, ir_function) ==
    /\ ir_function.result.some
    /\ \/ ir_function.result.binding = BuiltIn("FragDepth")
       \/ /\ ir_function.result.binding = NoBinding
          /\ ir_module.types[ir_function.result.ty].inner.ti = "Struct"
          /\ \E i \in 1..Len(ir_module.types[ir_function.result.ty].inner.members) :
                ir_module.types[ir_function.result.ty].inner.members[i].binding
                   = BuiltIn("FragDepth")

\* the execution modes the specification gives an entry point whose function has the
\* id function_id
ModesOf(ir_module, entry_point, function_id) ==
    CASE entry_point.stage = "Vertex" -> <<>>
      [] entry_point.stage = "Fragment" ->
            <<OpExecutionMode(function_id, "OriginUpperLeft", <<>>)>>
              \o (IF CarriesFragDepth(ir_module, entry_point.function)
                  THEN <<OpExecutionMode(function_id, "DepthReplacing", <<>>)>>
                  ELSE <<>>)
      [] entry_point.stage = "Compute" ->
            <<OpExecutionMode(function_id, "LocalSize",
                              << entry_point.workgroup_size[1],
                                 entry_point.workgroup_size[2],
                                 entry_point.workgroup_size[3] >>)>>

\* the execution modes of the first n entry points written
RECURSIVE ModesUpTo(_)
ModesUpTo(n) ==
    IF n = 0 THEN <<>>
    ELSE ModesUpTo(n - 1)
           \o ModesOf(Modules[mod],
                      Modules[mod].entry_points[EmittedEntryPoints[n]],
                      OpFunctions(w)[Cardinality(WrittenFunctions) + n].id)

\* C20: the execution mode section holds, entry point by entry point in the
\* order they were written: nothing for a Vertex entry point; OriginUpperLeft
\* for a Fragment entry point, followed by DepthReplacing exactly when its
\* result carries FragDepth, directly or through a struct member; one
\* LocalSize with the three workgroup_size values in order for a Compute
\* entry point.  The execution model of the OpEntryPoint is Vertex, Fragment
\* or GLCompute by stage, and the modes and the OpEntryPoint name the id of
\* the function emitted for the entry point.
C20_ExecutionModes ==
    AfterFunctions =>
       /\ w.logical_layout.execution_modes = ModesUpTo(Len(EmittedEntryPoints))
       /\ \A k \in 1..Len(EmittedEntryPoints) :
             /\ w.logical_layout.entry_points[k].tag
                   = (CASE Modules[mod].entry_points[EmittedEntryPoints[k]].stage
                              = "Vertex" -> "Vertex"
                        [] Modules[mod].entry_points[EmittedEntryPoints[k]].stage
                              = "Fragment" -> "Fragment"
                        [] Modules[mod].entry_points[EmittedEntryPoints[k]].stage
                              = "Compute" -> "GLCompute")
             /\ w.logical_layout.entry_points[k].refs[1]
                   = OpFunctions(w)[Cardinality(WrittenFunctions) + k].id

\* a write() of a module with a compute entry point and a fragment entry
\* point without depth, then a write() by the same writer of a module whose
\* two fragment entry points carry FragDepth, one directly and one through a
\* struct member
C20_AllStages ==
    /\ Written
    /\ Cardinality({ k \in 1..Len(w.logical_layout.execution_modes) :
          w.logical_layout.execution_modes[k].tag = "DepthReplacing" }) = 2
    /\ last.some
    /\ \E k \in 1..Len(last.logical_layout.execution_modes) :
          /\ last.logical_layout.execution_modes[k].tag = "LocalSize"
          /\ last.logical_layout.execution_modes[k].lits = <<8, 8, 1>>
    /\ \E k \in 1..Len(last.logical_layout.execution_modes) :
          last.logical_layout.execution_modes[k].tag = "OriginUpperLeft"
    /\ \A k \in 1..Len(last.logical_layout.execution_modes) :
          last.logical_layout.execution_modes[k].tag # "DepthReplacing"
    /\ \E k \in 1..Len(last.logical_layout.entry_points) :
          last.logical_layout.entry_points[k].tag = "Vertex"

----------------------------------------------------------------------------
(* C21: SPV_KHR_storage_buffer_storage_class                                *)

\* the start of write_logical_layout of the running or the returned write()
\* is over
AfterStart ==
    Written \/ pc \in {"scalars", "types", "composites", "globals", "functions",
                       "entry_points", "flush", "finish"}

\* the positions of the extension section that name the extension
StorageBufferExtensions(wr) ==
    { k \in 1..Len(wr.logical_layout.extensions) :
        /\ wr.logical_layout.extensions[k].op = "OpExtension"
        /\ wr.logical_layout.extensions[k].name
              = "SPV_KHR_storage_buffer_storage_class" }

\* C21: the extension section names SPV_KHR_storage_buffer_storage_class
\* once when the version of the writer is below 1.3 and some global of the
\* IR module, written or not, has class Storage, and not at all otherwise.
C21_StorageBufferExtension ==
    AfterStart =>
       Cardinality(StorageBufferExtensions(w))
          = (IF /\ opts.lang_version[1] = 1
                /\ opts.lang_version[2] < 3
                /\ \E g \in 1..Len(Modules[mod].global_variables) :
                      Modules[mod].global_variables[g].class = "Storage"
             THEN 1 ELSE 0)

\* the second write() of a writer below 1.3 selects an entry point that uses
\* no storage global of a module that has one: the global is not declared,
\* the extension is
C21_PrunedStorageGlobal ==
    /\ Written
    /\ last.some
    /\ po.some
    /\ \E g \in 1..Len(Modules[mod].global_variables) :
          /\ Modules[mod].global_variables[g].class = "Storage"
          /\ ~GlobalWritten(g)
          /\ w.global_variables[g].id = 0
    /\ StorageBufferExtensions(w) # {}

----------------------------------------------------------------------------
(* C22: the signature of an entry point                                     *)

\* the function type void()
VoidFunctionType(wr) ==
    [parameter_type_ids |-> <<>>, return_type_id |-> wr.void_type]

\* write_function for the entry point, up to and including its signature
UpToSignature(wr, ir_module, entry_point) ==
    Signature(
      ReturnType(
        Arguments(
          Prelude(
            LocalVariables(FunctionStart(wr), ir_module,
                           entry_point.function.local_variables, 1)),
          ir_module, FunctionInterface(entry_point.stage),
          entry_point.function.arguments, 1),
        ir_module, entry_point.function, FunctionInterface(entry_point.stage)),
      entry_point.function)

\* how many bound outputs the result of the function has
BoundOutputs(ir_module, ir_function) ==
    IF ~ir_function.result.some THEN 0
    ELSE IF ir_function.result.binding # NoBinding THEN 1
    ELSE Len(ir_module.types[ir_function.result.ty].inner.members)

\* the positions of the prelude whose instruction defines the id
PreludePositions(acc, id) ==
    { p \in 1..Len(acc.prelude) : acc.prelude[p].id = id }

\* what write_function holds for an entry point when its signature is made
SignatureAsSpecified(acc, ir_module, ir_function) ==
    /\ acc.parameters = <<>>
    /\ acc.parameter_type_ids = <<>>
    /\ acc.return_type_id = acc.w.void_type
    /\ acc.signature.ty = acc.w.void_type
    /\ acc.signature.refs = <<acc.w.lookup_function_type[VoidFunctionType(acc.w)]>>
    /\ Len(acc.argument_ids) = Len(ir_function.arguments)
    /\ \A i \in 1..Len(acc.argument_ids) :
          /\ Cardinality(PreludePositions(acc, acc.argument_ids[i])) = 1
          /\ \A p \in PreludePositions(acc, acc.argument_ids[i]) :
                acc.prelude[p].op
                   = (IF ir_function.arguments[i].binding # NoBinding
                      THEN "OpLoad" ELSE "OpCompositeConstruct")
          /\ \A j \in 1..Len(acc.argument_ids) :
                i < j => \A p \in PreludePositions(acc, acc.argument_ids[i]),
                            q \in PreludePositions(acc, acc.argument_ids[j]) : p < q
    /\ Len(acc.results) = BoundOutputs(ir_module, ir_function)
    /\ \A i \in 1..Len(acc.results) :
          /\ \E d \in 1..Len(acc.w.logical_layout.declarations) :
                /\ acc.w.logical_layout.declarations[d].op = "OpVariable"
                /\ acc.w.logical_layout.declarations[d].tag = "Output"
                /\ acc.w.logical_layout.declarations[d].id = acc.results[i].id
          /\ \A j \in 1..Len(acc.results) :
                i # j => acc.results[i].id # acc.results[j].id

\* C22: the function emitted for an entry point returns void and has no
\* OpFunctionParameter, whatever the arguments and the result of the IR
\* function: its OpFunction is followed by the label of the prelude, and its
\* function type is the one interned void() type, which the declarations hold
\* once.  When the signature of an entry point is made, argument_ids holds
\* one id per IR argument, in argument order, each defined in the prelude (a
\* load of the varying, or the composite of the loads of a struct's members),
\* and results holds one Output variable per bound result or struct member.
C22_EntryPointSignature ==
    /\ AfterFunctions =>
          /\ \A k \in 1..Len(EmittedEntryPoints) :
                \A f \in FunctionOps(w, "OpFunction") :
                   w.logical_layout.function_definitions[f].id
                         = w.logical_layout.entry_points[k].refs[1]
                      => /\ w.logical_layout.function_definitions[f].ty = w.void_type
                         /\ w.logical_layout.function_definitions[f].refs
                               = <<w.lookup_function_type[VoidFunctionType(w)]>>
                         /\ w.logical_layout.function_definitions[f + 1].op
                               = "OpLabel"
          /\ Cardinality({ d \in 1..Len(w.logical_layout.declarations) :
                /\ w.logical_layout.declarations[d].op = "OpTypeFunction"
                /\ w.logical_layout.declarations[d].refs = <<w.void_type>> }) <= 1
    /\ (pc = "entry_points" /\ (ep_index = NoIndex \/ ep_index = idx)) =>
          \/ Failed(UpToSignature(w, Modules[mod], Modules[mod].entry_points[idx]).w)
          \/ SignatureAsSpecified(
                UpToSignature(w, Modules[mod], Modules[mod].entry_points[idx]),
                Modules[mod], Modules[mod].entry_points[idx].function)

\* all the entry points of a module are written, one with a bound argument
\* and a struct result, next to a regular function that has parameters
C22_ArgumentsAndResults ==
    /\ Written
    /\ Len(w.logical_layout.entry_points) >= 2
    /\ FunctionOps(w, "OpFunctionParameter") # {}
    /\ \E k \in 1..Len(EmittedEntryPoints) :
          /\ Modules[mod].entry_points[EmittedEntryPoints[k]].function.arguments # <<>>
          /\ BoundOutputs(Modules[mod],
                Modules[mod].entry_points[EmittedEntryPoints[k]].function) >= 1

----------------------------------------------------------------------------
(* C23: the functions written for a selected entry point                    *)

\* how many functions of the arena the function loop has been through
FunctionsDone ==
    IF pc = "functions" THEN idx - 1
    ELSE IF AfterFunctions THEN Len(Modules[mod].functions)
    ELSE 0

\* the global uses of the selected entry point cover those of the function
Dominated(mod_info, h) ==
    \A g \in 1..Len(mod_info.functions[h].global_uses) :
       \A use \in mod_info.functions[h].global_uses[g] :
          use \in mod_info.entry_points[ep_index].global_uses[g]

\* the functions the loop has been through and that are to be written, in
\* arena order
FunctionsToWrite ==
    SelectSeq([h \in 1..FunctionsDone |-> h],
              LAMBDA h : ep_index = NoIndex \/ Dominated(Modules[mod].info, h))

\* C23: with a selected entry point a function of the arena is written, and
\* entered in lookup_function, exactly when the global uses of the entry
\* point dominate those of the function; with none selected every function
\* is.  The functions written appear in arena order, each under the id that
\* lookup_function gives it, and before the function of any entry point.
C23_FunctionPruning ==
    (pc = "functions" \/ AfterFunctions) =>
       /\ DOMAIN w.lookup_function
             = { FunctionsToWrite[k] : k \in 1..Len(FunctionsToWrite) }
       /\ ~po.some => Len(FunctionsToWrite) = FunctionsDone
       /\ Len(OpFunctions(w)) >= Len(FunctionsToWrite)
       /\ \A k \in 1..Len(FunctionsToWrite) :
             OpFunctions(w)[k].id = w.lookup_function[FunctionsToWrite[k]]
       /\ \A k \in 1..Len(w.logical_layout.entry_points) :
             \E j \in 1..Len(OpFunctions(w)) :
                /\ j > Len(FunctionsToWrite)
                /\ OpFunctions(w)[j].id = w.logical_layout.entry_points[k].refs[1]
       /\ pc = "functions" => w.logical_layout.entry_points = <<>>

\* an entry point is selected whose global uses dominate those of one
\* function of the module and not those of another, after a write() of all
\* the functions
C23_OneOfTwo ==
    /\ Written
    /\ po.some
    /\ \E h \in 1..Len(Modules[mod].functions) : h \in DOMAIN w.lookup_function
    /\ \E h \in 1..Len(Modules[mod].functions) : h \notin DOMAIN w.lookup_function
    /\ last.some
    /\ ~last.po.some
    /\ last.mod = mod

----------------------------------------------------------------------------
(* C24: no load of a dummy global                                           *)

\* the ids of the OpVariable declarations
VariableIds(wr) ==
    { wr.logical_layout.declarations[d].id :
        d \in { k \in 1..Len(wr.logical_layout.declarations) :
                  wr.logical_layout.declarations[k].op = "OpVariable" } }

\* the ids of the OpFunctionParameter instructions
ParameterIds(wr) ==
    { wr.logical_layout.function_definitions[p].id :
        p \in FunctionOps(wr, "OpFunctionParameter") }

\* the globals that the FunctionInfo says are used
UsedGlobals(info) ==
    { g \in 1..Len(info.global_uses) : info.global_uses[g] # {} }

\* C24: in every write(), pruned or not, no OpLoad of the function section
\* has for pointer the id 0 of a dummy global record: the pointer of every
\* load is a declared variable (or the parameter of a regular function), and
\* every global used by a function or an entry point that has been written
\* has a record with the id of a declared OpVariable.
C24_NoDummyLoaded ==
    (pc = "functions" \/ AfterFunctions) =>
       /\ \A l \in FunctionOps(w, "OpLoad") :
             /\ w.logical_layout.function_definitions[l].refs[1] # 0
             /\ w.logical_layout.function_definitions[l].refs[1]
                   \in VariableIds(w) \cup ParameterIds(w)
       /\ \A h \in DOMAIN w.lookup_function :
             \A g \in UsedGlobals(Modules[mod].info.functions[h]) :
                /\ w.global_variables[g].id # 0
                /\ w.global_variables[g].id \in VariableIds(w)
       /\ \A k \in 1..Len(EmittedEntryPoints) :
             k <= Len(w.logical_layout.entry_points) =>
                \A g \in UsedGlobals(
                            Modules[mod].info.entry_points[EmittedEntryPoints[k]]) :
                   /\ w.global_variables[g].id # 0
                   /\ w.global_variables[g].id \in VariableIds(w)

\* a pruned write(): one global is a dummy, and a function and the entry
\* point load the handle globals they use
C24_LoadsBesideDummy ==
    /\ Written
    /\ po.some
    /\ \E g \in 1..Len(w.global_variables) : w.global_variables[g].id = 0
    /\ DOMAIN w.lookup_function # {}
    /\ Cardinality({ l \in FunctionOps(w, "OpLoad") :
          \E g \in 1..Len(w.global_variables) :
             w.logical_layout.function_definitions[l].refs[1]
                = w.global_variables[g].id }) >= 3

----------------------------------------------------------------------------
(* C25: get_pointer_id                                                      *)

\* The model stops calling get_pointer_id after this many calls.
MaxPointerCalls == 3

\* the type arena get_pointer_id is called on: f32, a pointer to it in
\* function space, a vector
PointerArena ==
    << Ty("", TiScalar("Float", 4)),
       Ty("", TiPointer(1, "Function")),
       Ty("", TiVector(2, "Float", 4)) >>

\* the storage classes get_pointer_id is called with
PointerClasses == {"Function", "Private", "Output"}

\* the arena pass over the types of the arena, from handle on
RECURSIVE TypesWritten(_, _, _)
TypesWritten(wr, arena, handle) ==
    IF handle > Len(arena) THEN wr
    ELSE TypesWritten(write_type_declaration_arena(wr, arena, handle).w,
                      arena, handle + 1)

\* a writer whose arena pass is over: every handle of the arena has its id
InitPointerId ==
    /\ opts \in { o \in OptionsPool : o.lang_version[1] = 1 }
    /\ w = TypesWritten(Writer_new(opts), PointerArena, 1)
    /\ pc = "pointer"
    /\ idx = 0
    /\ mod = 0
    /\ po = NoPipeline
    /\ ep_index = NoIndex
    /\ words = <<>>
    /\ words0 = <<>>
    /\ ret = NoError
    /\ last = NoLast
    /\ writes = 0
    /\ calls = <<>>

\* what a call of get_pointer_id was given, what it found, returned and did
PointerCall(wr, handle, class, r) ==
    [handle |-> handle,
     class |-> class,
     ty_id |-> wr.lookup_type[Handle(handle)],
     known |-> IF Local(Pointer(handle, class)) \in DOMAIN wr.lookup_type
               THEN wr.lookup_type[Local(Pointer(handle, class))] ELSE 0,
     id |-> r.id,
     allocated |-> r.w.id_gen - wr.id_gen,
     emitted |-> SubSeq(Emitted(r.w), Len(Emitted(wr)) + 1, Len(Emitted(r.w))),
     declared |-> SubSeq(r.w.logical_layout.declarations,
                         Len(wr.logical_layout.declarations) + 1,
                         Len(r.w.logical_layout.declarations))]

\* self.get_pointer_id(arena, handle, class)
GetPointerId(handle, class) ==
    /\ pc = "pointer"
    /\ Len(calls) < MaxPointerCalls
    /\ w' = get_pointer_id(w, PointerArena, handle, class).w
    /\ ret' = w'.err
    /\ calls' = Append(calls,
          PointerCall(w, handle, class,
                      get_pointer_id(w, PointerArena, handle, class)))
    /\ UNCHANGED <<opts, pc, idx, mod, po, ep_index, words, words0, last, writes>>

NextPointerId ==
    \E handle \in 1..Len(PointerArena), class \in PointerClasses :
       GetPointerId(handle, class)

SpecPointerId == InitPointerId /\ [][NextPointerId]_vars

\* the call allocated nothing and emitted nothing
NothingDone(c) == c.allocated = 0 /\ c.emitted = <<>>

\* the call allocated its id and declared the pointer type, and nothing else
PointerDeclared(c) ==
    /\ c.allocated = 1
    /\ c.emitted = c.declared
    /\ c.declared = << Instruction("OpTypePointer", c.id, 0, <<c.ty_id>>,
                                   c.class, <<>>, "") >>

\* the call is the first one with its handle and class
FirstCall(i) ==
    \A j \in 1..(i - 1) :
       ~(calls[j].handle = calls[i].handle /\ calls[j].class = calls[i].class)

\* a different class for the same handle, not a pointer, gives a different id
ClassesApart ==
    \A i, j \in 1..Len(calls) :
       (/\ calls[i].handle = calls[j].handle
        /\ calls[i].class # calls[j].class
        /\ PointerArena[calls[i].handle].inner.ti # "Pointer")
          => calls[i].id # calls[j].id

\* C25, as stated: for a handle that is a pointer type the call returns
\* lookup_type[Handle(h)] and does nothing; else the first call with a given
\* handle and class allocates one id and declares OpTypePointer(class, id of
\* the handle), every later call with them returns that id and does nothing,
\* and another class gives another id.
C25_FirstCallAllocates ==
    /\ \A i \in 1..Len(calls) :
          IF PointerArena[calls[i].handle].inner.ti = "Pointer"
          THEN calls[i].id = calls[i].ty_id /\ NothingDone(calls[i])
          ELSE IF FirstCall(i)
          THEN PointerDeclared(calls[i])
          ELSE /\ NothingDone(calls[i])
               /\ \A j \in 1..(i - 1) :
                     (calls[j].handle = calls[i].handle
                      /\ calls[j].class = calls[i].class)
                        => calls[i].id = calls[j].id
    /\ ClassesApart

\* C25, amended: the call that allocates and declares is the one that finds
\* no Pointer{base, class} key in lookup_type; that is the first call with
\* the handle and the class unless the arena pass interned the key for an IR
\* pointer type with that base and class, and then the first call too returns
\* the interned id and does nothing.
C25_PointerInterned ==
    /\ \A i \in 1..Len(calls) :
          IF PointerArena[calls[i].handle].inner.ti = "Pointer"
          THEN calls[i].id = calls[i].ty_id /\ NothingDone(calls[i])
          ELSE IF calls[i].known = 0
          THEN PointerDeclared(calls[i]) /\ FirstCall(i)
          ELSE /\ NothingDone(calls[i])
               /\ calls[i].id = calls[i].known
               /\ \A j \in 1..(i - 1) :
                     (calls[j].handle = calls[i].handle
                      /\ calls[j].class = calls[i].class)
                        => calls[i].id = calls[j].id
    /\ ClassesApart

\* three calls for f32: a class asked for the first time, the same class
\* again, and the class of the pointer type of the arena
C25_FreshRepeatedInterned ==
    /\ Len(calls) = 3
    /\ calls[1].handle = 1 /\ calls[1].known = 0 /\ calls[1].allocated = 1
    /\ calls[2].handle = 1 /\ calls[2].class = calls[1].class
    /\ calls[2].id = calls[1].id
    /\ calls[3].handle = 1 /\ calls[3].class = "Function"
    /\ calls[3].known # 0
    /\ calls[3].id # calls[1].id

----------------------------------------------------------------------------
(* C26: handle_id is per function                                           *)

\* some function or entry point has been written by the running or the
\* returned write()
SomeFunctionWritten ==
    /\ pc = "functions" \/ AfterFunctions
    /\ OpFunctions(w) # <<>>

\* the FunctionInfo of the function or entry point written last
LastWrittenInfo ==
    IF AfterFunctions /\ Len(EmittedEntryPoints) > 0
    THEN Modules[mod].info.entry_points[
            EmittedEntryPoints[Len(EmittedEntryPoints)]]
    ELSE Modules[mod].info.functions[FunctionsToWrite[Len(FunctionsToWrite)]]

\* the position of the last OpFunction of the function section
LastOpFunction ==
    CHOOSE f \in FunctionOps(w, "OpFunction") :
       \A g \in FunctionOps(w, "OpFunction") : g <= f

\* the positions of the prelude of the function written last: from its
\* OpFunction to its OpBranch
LastPrelude ==
    { p \in 1..Len(w.logical_layout.function_definitions) :
        /\ p > LastOpFunction
        /\ \A b \in FunctionOps(w, "OpBranch") : b > LastOpFunction => p < b }

\* C26: when the body of a function or an entry point is translated, and
\* until the next one is started, the handle_id of a global is set exactly
\* when the global has class Handle and the function uses it, and it is then
\* the id of a load of the global in the prelude of that very function; the
\* handle_id of every other global is cleared.  Before the first function of
\* a write() every handle_id is cleared.
C26_HandleIds ==
    /\ (pc = "functions" \/ AfterFunctions) =>
          \A g \in 1..Len(w.global_variables) :
             IF /\ SomeFunctionWritten
                /\ Modules[mod].global_variables[g].class = "Handle"
                /\ LastWrittenInfo.global_uses[g] # {}
             THEN /\ w.global_variables[g].handle_id # 0
                  /\ \E p \in LastPrelude :
                        w.logical_layout.function_definitions[p]
                           = Load(w.lookup_type[
                                     Handle(Modules[mod].global_variables[g].ty)],
                                  w.global_variables[g].handle_id,
                                  w.global_variables[g].id)
             ELSE w.global_variables[g].handle_id = 0
    /\ w # NoWriter =>
          \A g, h \in 1..Len(w.global_variables) :
             (g # h /\ w.global_variables[g].handle_id # 0)
                => w.global_variables[g].handle_id
                      # w.global_variables[h].handle_id

\* a function that uses no handle global has been written after one that
\* loaded a handle global: no handle_id is set
C26_ClearedAfterUse ==
    /\ pc = "entry_points"
    /\ idx = 1
    /\ Len(FunctionsToWrite) >= 2
    /\ \A g \in 1..Len(w.global_variables) : w.global_variables[g].handle_id = 0
    /\ \E l \in FunctionOps(w, "OpLoad"), g \in 1..Len(w.global_variables) :
          /\ Modules[mod].global_variables[g].class = "Handle"
          /\ w.logical_layout.function_definitions[l].refs
                = <<w.global_variables[g].id>>

----------------------------------------------------------------------------
(* C27: the interface list of an entry point                                *)

\* the Input and Output variables of the declarations, in emission order
Varyings(wr) ==
    SelectSeq(wr.logical_layout.declarations,
              LAMBDA ins : ins.op = "OpVariable" /\ ins.tag \in {"Input", "Output"})

\* how many input varyings the arguments of the function have, from the
\* i-th argument on
RECURSIVE InputsFrom(_, _, _)
InputsFrom(ir_module, ir_function, i) ==
    IF i > Len(ir_function.arguments) THEN 0
    ELSE (IF ir_function.arguments[i].binding # NoBinding THEN 1
          ELSE Len(ir_module.types[ir_function.arguments[i].ty].inner.members))
         + InputsFrom(ir_module, ir_function, i + 1)

\* whether the point size is synthesized for the entry point
PointSizeForced(wr, ir_module, entry_point) ==
    /\ "FORCE_POINT_SIZE" \in wr.flags
    /\ entry_point.stage = "Vertex"
    /\ entry_point.function.result.some
    /\ ~HasPointSizeOutput(ir_module, entry_point)

\* the storage classes of the variables of the entry point, in the order in
\* which the specification lists them
InterfaceClasses(wr, ir_module, entry_point) ==
    [i \in 1..InputsFrom(ir_module, entry_point.function, 1) |-> "Input"]
      \o [i \in 1..(BoundOutputs(ir_module, entry_point.function)
                    + (IF PointSizeForced(wr, ir_module, entry_point)
                       THEN 1 ELSE 0)) |-> "Output"]

\* the interface lists of the first n OpEntryPoint instructions, one after
\* the other
RECURSIVE InterfacesUpTo(_, _)
InterfacesUpTo(wr, n) ==
    IF n = 0 THEN <<>>
    ELSE InterfacesUpTo(wr, n - 1) \o InterfaceOf(wr, n)

\* C27: the interface lists of the entry points written, put one after the
\* other, are the ids of the Input and Output variables of the declarations
\* in emission order: every such variable is in exactly one list, once, no
\* other id is in a list.  The list of an entry point holds its input
\* varyings (one per bound argument or struct member), then its output
\* varyings (one per bound result or struct member), then the synthesized
\* PointSize variable if there is one.
C27_Interface ==
    AfterFunctions =>
       /\ InterfacesUpTo(w, Len(w.logical_layout.entry_points))
             = [i \in 1..Len(Varyings(w)) |-> Varyings(w)[i].id]
       /\ \A i, j \in 1..Len(Varyings(w)) :
             i # j => Varyings(w)[i].id # Varyings(w)[j].id
       /\ \A k \in 1..Len(w.logical_layout.entry_points) :
             /\ Len(InterfaceOf(w, k))
                   = Len(InterfaceClasses(w, Modules[mod],
                            Modules[mod].entry_points[EmittedEntryPoints[k]]))
             /\ \A i \in 1..Len(InterfaceOf(w, k)) :
                   \E v \in 1..Len(Varyings(w)) :
                      /\ Varyings(w)[v].id = InterfaceOf(w, k)[i]
                      /\ Varyings(w)[v].tag
                            = InterfaceClasses(w, Modules[mod],
                                 Modules[mod].entry_points[EmittedEntryPoints[k]])[i]
             /\ PointSizeForced(w, Modules[mod],
                                Modules[mod].entry_points[EmittedEntryPoints[k]])
                   => \E a \in 1..Len(w.annotations) :
                         w.annotations[a]
                            = Instruction("OpDecorate", 0, 0,
                                 <<InterfaceOf(w, k)[Len(InterfaceOf(w, k))]>>,
                                 "BuiltIn", <<>>, "PointSize")
             /\ \A g \in 1..Len(w.global_variables) :
                   \A i \in 1..Len(InterfaceOf(w, k)) :
                      InterfaceOf(w, k)[i] # w.global_variables[g].id

\* all the entry points of a module are written: one has a struct argument
\* and a bound argument, one a synthesized point size
C27_StructArgumentAndPointSize ==
    /\ Written
    /\ Len(w.logical_layout.entry_points) >= 3
    /\ \E k \in 1..Len(w.logical_layout.entry_points) :
          /\ InputsFrom(Modules[mod],
                Modules[mod].entry_points[EmittedEntryPoints[k]].function, 1) >= 3
          /\ BoundOutputs(Modules[mod],
                Modules[mod].entry_points[EmittedEntryPoints[k]].function) >= 1
    /\ \E k \in 1..Len(w.logical_layout.entry_points) :
          PointSizeForced(w, Modules[mod],
                          Modules[mod].entry_points[EmittedEntryPoints[k]])

----------------------------------------------------------------------------
(* C28: declared before use                                                 *)

\* the ids an instruction refers to: its result type and its id operands
ReferredIds(ins) == ({ins.ty} \cup { ins.refs[k] : k \in 1..Len(ins.refs) }) \ {0}

\* the opcodes of the instructions of the sequence
OpsOf(ins) == { ins[k].op : k \in 1..Len(ins) }

\* C28: every instruction of the declarations section comes after the
\* declaration, in that section, of every id it refers to: its result type,
\* the component, column, pointee, sampled, element and member types of a
\* type, the length constant of an array, the constituents of a composite
\* constant, the initializer of a variable, the return and parameter types
\* of a function type.
C28_DeclaredBeforeUse ==
    w # NoWriter =>
       \A k \in 1..Len(w.logical_layout.declarations) :
          \A r \in ReferredIds(w.logical_layout.declarations[k]) :
             \E j \in 1..(k - 1) : w.logical_layout.declarations[j].id = r

\* a module with an image, pointers, a struct and function types has been
\* written after one with an array, a matrix, composite constants and an
\* initialized variable, and a declaration has an id smaller than the id of
\* a type it refers to
C28_AllKinds ==
    /\ Written
    /\ {"OpTypeImage", "OpTypePointer", "OpTypeStruct", "OpTypeFunction",
        "OpTypeVector", "OpVariable"} \subseteq OpsOf(w.logical_layout.declarations)
    /\ last.some
    /\ {"OpTypeArray", "OpTypeMatrix", "OpConstantComposite", "OpTypeVector"}
          \subseteq OpsOf(last.logical_layout.declarations)
    /\ \E k \in 1..Len(last.logical_layout.declarations) :
          /\ last.logical_layout.declarations[k].op = "OpVariable"
          /\ last.logical_layout.declarations[k].refs # <<>>
    /\ \E k \in 1..Len(last.logical_layout.declarations) :
          \E r \in ReferredIds(last.logical_layout.declarations[k]) :
             r > last.logical_layout.declarations[k].id

----------------------------------------------------------------------------
(* C29: one OpTypePointer per storage class and pointee                     *)

\* the positions of the declarations that declare a pointer type
PointerTypes(wr) ==
    { k \in 1..Len(wr.logical_layout.declarations) :
        wr.logical_layout.declarations[k].op = "OpTypePointer" }

\* C29: no two OpTypePointer declarations of a module have the same storage
\* class and the same pointee type id, whether they were asked for by handle
\* and class (get_pointer_id, the arena pass) or by value and class
\* (get_float_pointer_type_id).
C29_PointerTypesUnique ==
    w # NoWriter =>
       \A j, k \in PointerTypes(w) :
          (/\ w.logical_layout.declarations[j].tag
                 = w.logical_layout.declarations[k].tag
           /\ w.logical_layout.declarations[j].refs
                 = w.logical_layout.declarations[k].refs)
             => j = k

\* the ids of the pointer types interned by value and class
ValueKeyedPointers(wr) ==
    { wr.lookup_type[key] : key \in
        { x \in DOMAIN wr.lookup_type :
            /\ x.k = "Local"
            /\ x.local.lt = "Value"
            /\ x.local.pointer_class # "" } }

\* C29, for the pointer types of one form of key: two OpTypePointer
\* declarations with the same storage class and pointee are never both
\* interned by handle and class; one of the two is the one interned by value
\* and class.
C29_SameFormUnique ==
    w # NoWriter =>
       \A j, k \in PointerTypes(w) :
          (/\ j # k
           /\ w.logical_layout.declarations[j].tag
                 = w.logical_layout.declarations[k].tag
           /\ w.logical_layout.declarations[j].refs
                 = w.logical_layout.declarations[k].refs)
             => \/ w.logical_layout.declarations[j].id \in ValueKeyedPointers(w)
                \/ w.logical_layout.declarations[k].id \in ValueKeyedPointers(w)

----------------------------------------------------------------------------
(* C30: the capabilities used stay inside the available ones                *)

\* the capabilities make_scalar records for a width
WidthCapabilities == {"Int8", "Int16", "Int64", "Float64"}

\* C30: whenever capabilities_available is Some(S), capabilities_used is a
\* subset of S together with Shader: no operation of the writer records a
\* capability outside the set the caller allowed.
C30_UsedWithinAvailable ==
    (w # NoWriter /\ w.capabilities_available.some) =>
       w.capabilities_used \subseteq (w.capabilities_available.set \cup {"Shader"})

\* C30, without the scalar types: what is used outside the available set
\* and Shader is a capability make_scalar recorded for a width.
C30_UsedOutsideIsWidth ==
    (w # NoWriter /\ w.capabilities_available.some) =>
       w.capabilities_used \subseteq
          (w.capabilities_available.set \cup {"Shader"} \cup WidthCapabilities)

\* C30, second half: between two resets capabilities_used only grows: every
\* step of a write() after its reset() keeps what was used before it.
C30_UsedOnlyGrows ==
    [][(pc # "idle" /\ w # NoWriter /\ w' # NoWriter)
          => w.capabilities_used \subseteq w'.capabilities_used]_vars

\* a write() under a restricted set has recorded an image or built-in
\* capability of the set beside Shader
C30_GrownWithinAvailable ==
    /\ w # NoWriter
    /\ w.capabilities_available.some
    /\ pc # "idle"
    /\ w.capabilities_used \subseteq w.capabilities_available.set
    /\ w.capabilities_used \ {"Shader"} # {}

====
